---------------------------- MODULE Spec2Model ----------------------------
(***************************************************************************)
(* Model of the replanning strategies of replanners_lib:                   *)
(*   - ReplannerManagerMARSHA::collisionCheckThread                        *)
(*     (replanner_manager_MARSHA.cpp), as one thread stepping through its  *)
(*     statements next to a second thread that uses the same mutexes;      *)
(*   - DynamicRRTStar::nodeBehindObs / rewireBehindObs / connectBehindObs  *)
(*     / replan (both variants kept in DRRT.h) on a small tree.            *)
(* The collision-check thread is specified by SpecCC, its locking next to  *)
(* a competing thread by SpecLocks, the DRRT* repair by SpecDRRT and the   *)
(* pure function nodeBehindObs by SpecNB.                                  *)
(***************************************************************************)
EXTENDS Integers, Sequences, FiniteSets, TLC

VARIABLES
  \* ---- collisionCheckThread and the state it shares -----------------
  cc_pc,                      \* statement the collision-check thread is at
  cc_exit,                    \* why the thread left its loop ("none" while running)
  stop_,                      \* ReplannerManagerBase::stop_
  srv_up,                     \* whether plannning_scene_client_.call() succeeds
  world,                      \* the world the scene service would return now
  ps_srv,                     \* ps_srv.response.scene.world of the last call
  planning_scene_msg,         \* thread-local scene message
  obstacles_positions,        \* thread-local obstacle positions
  checker_cc_scene,           \* scene held by checker_cc_
  ssm_current_path,           \* positions held by metrics_current_path's SSM
  checkers_scene,             \* scene held by checkers[i]
  metrics_positions,          \* positions held by metrics[i]'s SSM
  planning_scene_msg_,        \* shared scene message (member)
  planning_scene_diff_msg_,   \* shared diff scene message (member)
  obstalces_positions_,       \* shared obstacle positions (member)
  current_configuration_,     \* shared current configuration
  current_configuration_copy, \* thread-local copy of it
  current_path_shared_,       \* version of the shared current path
  current_path_sync_needed_,  \* flag asking for a reclone
  current_path_copy,          \* version of the thread's clone
  cost_current_copy,          \* scene the clone's costs were computed with
  cost_other_copy,            \* scene alternate copy i's costs were computed with
  cost_current_shared,        \* scene the shared current path's costs come from
  cost_other_shared,          \* scene shared alternate i's costs come from
  other_path_size,            \* thread-local other_path_size
  other_paths_sync_needed_,   \* flag asking for a reclone of alternate path i
  tasks,                      \* state of the check task of alternate path i
  mtx,                        \* owner of each mutex
  cc_held,                    \* mutexes the thread holds, in acquisition order
  rp_held,                    \* mutexes the other thread holds, in acquisition order
  rp_want,                    \* mutex the other thread is blocked on
  attached,                   \* checker and metrics each thread-local copy has
  published,                  \* what the last complete cycle worked on and wrote back
  \* ---- the manager's replanner and its metrics ----------------------
  m_pc,                       \* where initReplanner() is
  m_warned,                   \* whether initReplanner() issued its ROS_WARN
  full_net_search_,           \* ReplannerManagerMARS::full_net_search_
  ha_metrics_,                \* the manager's LengthPenaltyMetrics ("null" if none)
  reverse_start_nodes_,       \* ReplannerManagerMARS::reverse_start_nodes_
  dt_replan_,                 \* period of the replanning thread, in clock units
  replanner_,                 \* the installed replanner: {} while null, else {r}
  ha_ssm_positions,           \* obstacle positions of ha_metrics_'s SSM estimator
  \* ---- DynamicRRTStar and the tree it repairs -----------------------
  variant,            \* 1: replan() built on rewireBehindObs, 2: on connectBehindObs
  d_pc,               \* statement replan() is at
  tree_nodes,         \* nodes of current_path_->getTree()
  tree_root,          \* root of that tree
  conn,               \* every Connection object made so far
  path,               \* current_path_->getConnections(), as Connection ids
  goal_node_,         \* goal node of the replanner
  conf_conn,          \* index in path of the connection holding current_configuration_
  conf_child_blocked, \* whether the stretch from the configuration to that connection's child is obstructed
  success_,           \* ReplannerBase::success_
  replanned_path_,    \* which Path object replanned_path_ points to
  replanned_conns,    \* connections of the Path made by this call
  ret,                \* value replan() returned ("none" while running)
  root,               \* local: root saved on entry
  node_replan,        \* local: node added at the current configuration
  replan_goal,        \* local: node_behind found by nodeBehindObs
  nb_found,           \* local: value nodeBehindObs returned
  white_list,         \* local: nodes of the current path
  cost2goal,          \* local: best cost to replan_goal so far
  time,               \* local: elapsed time since tic, as last read
  clock,              \* elapsed time since tic on ros::WallTime itself
  last_try,           \* what the last pass of the sampling loop did
  tree_modified,      \* local of the connectBehindObs variant
  n_sampled,          \* nodes added by the sampling loop since the initial state
  touched,            \* whether Phase A or Phase B changed the tree
  entry               \* tree and path as they were when replan() was called

cc_vars == <<cc_pc, cc_exit, stop_, srv_up, world, ps_srv, planning_scene_msg,
             obstacles_positions, checker_cc_scene, ssm_current_path,
             checkers_scene, metrics_positions, planning_scene_msg_,
             planning_scene_diff_msg_, obstalces_positions_,
             current_configuration_, current_configuration_copy,
             current_path_shared_, current_path_sync_needed_, current_path_copy,
             cost_current_copy, cost_other_copy, cost_current_shared,
             cost_other_shared, other_path_size, other_paths_sync_needed_,
             tasks, mtx, cc_held, rp_held, rp_want, attached,
             published>>

init_vars == <<m_pc, m_warned, full_net_search_, ha_metrics_, reverse_start_nodes_,
               dt_replan_, replanner_>>

m_vars == <<init_vars, ha_ssm_positions>>

d_vars == <<variant, d_pc, tree_nodes, tree_root, conn, path, goal_node_,
            conf_conn, conf_child_blocked, success_, replanned_path_,
            replanned_conns, ret, root, node_replan, replan_goal, nb_found,
            white_list, cost2goal, time, clock, last_try, tree_modified,
            n_sampled, touched, entry>>

vars == <<cc_vars, d_vars, m_vars>>

(***************************************************************************)
(* Bounds of the model.                                                    *)
(***************************************************************************)
NOtherPaths == 2     \* alternate paths in the bank
MaxWorld == 1        \* collision objects that come into the world
MaxPathVersion == 1  \* times the current path is replaced

OtherIdx == 1..NOtherPaths

\* the bank of alternate paths gets the replaced current paths
MaxOther == NOtherPaths + MaxPathVersion
NoMutex == "none"
Mutexes == {"scene_mtx", "trj_mtx", "paths_mtx", "other_paths_mtx"}

\* Position of a mutex in the documented acquisition order.
Rank(m) ==
  CASE m = "scene_mtx" -> 1
    [] m = "trj_mtx" -> 2
    [] m = "paths_mtx" -> 3
    [] m = "other_paths_mtx" -> 4

RECURSIVE SeqRemove(_, _)
SeqRemove(s, m) ==
  IF s = <<>> THEN <<>>
  ELSE IF Head(s) = m THEN Tail(s)
  ELSE <<Head(s)>> \o SeqRemove(Tail(s), m)

SeqSet(s) == {s[i] : i \in 1..Len(s)}

SetMax(S) == CHOOSE x \in S : \A y \in S : y <= x
SetMin(S) == CHOOSE x \in S : \A y \in S : x <= y

(***************************************************************************)
(* The world the scene service returns is a list of collision objects, an  *)
(* object an identifier and a position.                                    *)
(***************************************************************************)
\* MARSHA/unaware_obstacles, as MARSHAadditionalParams reads it
unaware_obstacles_ == <<"box", "cart">>

\* the collision objects that come into the world next to the thread
WorldObjects == {[id |-> "human", pos |-> 1], [id |-> "box", pos |-> 2]}

\* std::find(first, last, id): the index of the first element equal to id,
\* the index past the end when there is none
RECURSIVE Find(_, _, _)
Find(s, id, from) ==
  IF from > Len(s) THEN Len(s) + 1
  ELSE IF s[from] = id THEN from
  ELSE Find(s, id, from + 1)

\* if(std::find(unaware_obstacles_.begin(), unaware_obstacles_.end(), obj.id)
\*      >= unaware_obstacles_.end())
CountsForSSMAlways(id) == TRUE

CountsForSSM(id) == Find(unaware_obstacles_, id, 1) >= Len(unaware_obstacles_) + 1

\* updateObstaclesPositions(world): one column per object that counts, in
\* the order of world.collision_objects
RECURSIVE updateObstaclesPositions(_)
updateObstaclesPositions(w) ==
  IF w = <<>> THEN <<>>
  ELSE LET rest == updateObstaclesPositions(SubSeq(w, 1, Len(w) - 1))
           obj == w[Len(w)]
       IN IF CountsForSSM(obj.id) THEN Append(rest, obj.pos) ELSE rest

(***************************************************************************)
(* collisionCheckThread: the mutex each lock()/unlock() statement names.   *)
(***************************************************************************)
MutexOfStepSwapped(pc) ==
  CASE pc \in {"lock_scene1", "unlock_scene1", "lock_scene2", "unlock_scene2"}
         -> "scene_mtx"
    [] pc \in {"lock_trj", "unlock_trj"} -> "paths_mtx"
    [] pc \in {"lock_paths", "unlock_paths"} -> "trj_mtx"
    [] pc \in {"lock_other", "unlock_other"} -> "other_paths_mtx"
    [] pc \in {"upc_lock_paths", "upc_unlock_paths"} -> "paths_mtx"
    [] pc \in {"upc_lock_other", "upc_unlock_other"} -> "other_paths_mtx"
    [] OTHER -> NoMutex

\* the commit section opened and closed on trj_mtx_ instead of scene_mtx_
MutexOfStepCommitElsewhere(pc) ==
  CASE pc \in {"lock_scene1", "unlock_scene1"} -> "scene_mtx"
    [] pc \in {"lock_scene2", "unlock_scene2"} -> "trj_mtx"
    [] pc \in {"lock_trj", "unlock_trj"} -> "trj_mtx"
    [] pc \in {"lock_paths", "unlock_paths"} -> "paths_mtx"
    [] pc \in {"lock_other", "unlock_other"} -> "other_paths_mtx"
    [] pc \in {"upc_lock_paths", "upc_unlock_paths"} -> "paths_mtx"
    [] pc \in {"upc_lock_other", "upc_unlock_other"} -> "other_paths_mtx"
    [] OTHER -> NoMutex

MutexOfStep(pc) ==
  CASE pc \in {"lock_scene1", "unlock_scene1", "lock_scene2", "unlock_scene2"}
         -> "scene_mtx"
    [] pc \in {"lock_trj", "unlock_trj"} -> "trj_mtx"
    [] pc \in {"lock_paths", "unlock_paths"} -> "paths_mtx"
    [] pc \in {"lock_other", "unlock_other"} -> "other_paths_mtx"
    [] pc \in {"upc_lock_paths", "upc_unlock_paths"} -> "paths_mtx"
    [] pc \in {"upc_lock_other", "upc_unlock_other"} -> "other_paths_mtx"
    [] OTHER -> NoMutex

\* The statement that follows each lock()/unlock() statement.
AfterStep(pc) ==
  CASE pc = "lock_scene1" -> "set_scene"
    [] pc = "unlock_scene1" -> "lock_trj"
    [] pc = "lock_trj" -> "lock_paths"
    [] pc = "lock_paths" -> "sync_current"
    [] pc = "lock_other" -> "sync_others"
    [] pc = "unlock_other" -> "unlock_paths"
    [] pc = "unlock_paths" -> "unlock_trj"
    [] pc = "unlock_trj" -> "goal_test"
    [] pc = "lock_scene2" -> "upc_lock_paths"
    [] pc = "upc_lock_paths" -> "upc_lock_other"
    [] pc = "upc_lock_other" -> "update_costs"
    [] pc = "upc_unlock_other" -> "upc_unlock_paths"
    [] pc = "upc_unlock_paths" -> "commit"
    [] pc = "unlock_scene2" -> "sleep"

LockSteps == {"lock_scene1", "lock_trj", "lock_paths", "lock_other",
              "lock_scene2", "upc_lock_paths", "upc_lock_other"}
UnlockSteps == {"unlock_scene1", "unlock_other", "unlock_paths", "unlock_trj",
                "upc_unlock_other", "upc_unlock_paths", "unlock_scene2"}

cc_data == <<cc_exit, stop_, srv_up, world, ps_srv, planning_scene_msg,
             obstacles_positions, checker_cc_scene, ssm_current_path,
             checkers_scene, metrics_positions, planning_scene_msg_,
             planning_scene_diff_msg_, obstalces_positions_,
             current_configuration_, current_configuration_copy,
             current_path_shared_, current_path_sync_needed_, current_path_copy,
             cost_current_copy, cost_other_copy, cost_current_shared,
             cost_other_shared, tasks>>

rp_vars == <<rp_held, rp_want>>

bank_vars == <<other_path_size, other_paths_sync_needed_>>

\* the record of the last complete cycle: the scene and configuration it
\* worked on, the costs it wrote back, whether a copy was recloned since the
\* cycle before it (clean = no), and whether it repeated the cycle before it
NothingPublished ==
  [valid |-> FALSE, clean |-> TRUE, repeat |-> FALSE, scene |-> <<>>,
   conf |-> "on_path", current |-> <<>>, others |-> <<>>]

\* the scene the checkers are given at line 154 and 159: the one just read
SceneForCheckersCommitted(fresh, committed) == committed

SceneForCheckers(fresh, committed) == fresh

\* what clone() leaves a copy with: the checker and metrics of the shared path
AttachedToCopyByClone(i) == 0

AttachedToCopyFirstClone(i) == 1

\* setChecker(checkers.at(i)); setMetrics(metrics.at(i)): copy i gets
\* element i of the thread's checkers and metrics (counted from 1 here)
AttachedToCopy(i) == i

\* the manager's replanner state while the threads run
MIdle ==
  /\ m_pc = "returned"
  /\ m_warned = FALSE
  /\ full_net_search_ = FALSE
  /\ ha_metrics_ = "set"
  /\ reverse_start_nodes_ = FALSE
  /\ dt_replan_ = 100
  /\ replanner_ = {[full_net_search |-> FALSE, reverse_start_nodes |-> FALSE,
                    max_time |-> 90]}
  /\ ha_ssm_positions = <<>>

\* the state when collisionCheckThread reaches its loop with a bank of n
\* alternate paths
CCInitWith(n) ==
  /\ cc_pc = "head"
  /\ cc_exit = "none"
  /\ stop_ = FALSE
  /\ srv_up = TRUE
  /\ world = <<>>
  /\ ps_srv = <<>>
  /\ planning_scene_msg = <<>>
  /\ obstacles_positions = <<>>
  /\ checker_cc_scene = <<>>
  /\ ssm_current_path = <<>>
  /\ checkers_scene = [i \in 1..n |-> <<>>]
  /\ metrics_positions = [i \in 1..n |-> <<>>]
  /\ planning_scene_msg_ = <<>>
  /\ planning_scene_diff_msg_ = <<>>
  /\ obstalces_positions_ = <<>>
  /\ current_configuration_ = "on_path"
  /\ current_configuration_copy = "on_path"
  /\ current_path_shared_ = 0
  /\ current_path_sync_needed_ = FALSE
  /\ current_path_copy = 0
  /\ cost_current_copy = <<>>
  /\ cost_other_copy = [i \in 1..n |-> <<>>]
  /\ cost_current_shared = <<>>
  /\ cost_other_shared = [i \in 1..n |-> <<>>]
  /\ other_path_size = n
  /\ other_paths_sync_needed_ = [i \in 1..n |-> FALSE]
  /\ tasks = <<>>
  /\ mtx = [m \in Mutexes |-> "free"]
  /\ cc_held = <<>>
  /\ rp_held = <<>>
  /\ rp_want = NoMutex
  /\ attached = [current |-> "checker_cc_",
                 others |-> [i \in 1..n |-> AttachedToCopy(i)]]
  /\ published = NothingPublished

CCInit == CCInitWith(NOtherPaths)

\* the condition of the loop: (not stop_) && ros::ok(), with ROS running
LoopConditionIgnoresStop(stop) == TRUE

LoopCondition(stop) == ~stop

\* while((not stop_) && ros::ok())
CCLoopHead ==
  /\ cc_pc = "head"
  /\ IF LoopCondition(stop_)
       THEN cc_pc' = "call" /\ cc_exit' = cc_exit
       ELSE cc_pc' = "done" /\ cc_exit' = "stop"
  /\ UNCHANGED <<stop_, srv_up, world, ps_srv, planning_scene_msg,
                 obstacles_positions, checker_cc_scene, ssm_current_path,
                 checkers_scene, metrics_positions, planning_scene_msg_,
                 planning_scene_diff_msg_, obstalces_positions_,
                 current_configuration_, current_configuration_copy,
                 current_path_shared_, current_path_sync_needed_,
                 current_path_copy, cost_current_copy, cost_other_copy,
                 cost_current_shared, cost_other_shared, tasks, mtx, cc_held,
                 rp_vars>>
  /\ UNCHANGED <<bank_vars, attached, d_vars, m_vars, published>>

\* if(not plannning_scene_client_.call(ps_srv)) { stop_ = true; break; }
CCCallSceneFallsThrough ==
  /\ cc_pc = "call"
  /\ IF srv_up
       THEN /\ ps_srv' = world
            /\ cc_pc' = "lock_scene1"
            /\ UNCHANGED <<stop_, cc_exit>>
       ELSE /\ stop_' = TRUE
            /\ cc_pc' = "lock_scene1"
            /\ cc_exit' = "srv"
            /\ ps_srv' = ps_srv
  /\ UNCHANGED <<srv_up, world, planning_scene_msg,
                 obstacles_positions, checker_cc_scene, ssm_current_path,
                 checkers_scene, metrics_positions, planning_scene_msg_,
                 planning_scene_diff_msg_, obstalces_positions_,
                 current_configuration_, current_configuration_copy,
                 current_path_shared_, current_path_sync_needed_,
                 current_path_copy, cost_current_copy, cost_other_copy,
                 cost_current_shared, cost_other_shared, tasks, mtx, cc_held,
                 rp_vars>>
  /\ UNCHANGED <<bank_vars, attached, d_vars, m_vars, published>>

CCCallScene ==
  /\ cc_pc = "call"
  /\ IF srv_up
       THEN /\ ps_srv' = world
            /\ cc_pc' = "lock_scene1"
            /\ UNCHANGED <<stop_, cc_exit>>
       ELSE /\ stop_' = TRUE
            /\ cc_pc' = "done"
            /\ cc_exit' = "srv"
            /\ ps_srv' = ps_srv
  /\ UNCHANGED <<srv_up, world, planning_scene_msg,
                 obstacles_positions, checker_cc_scene, ssm_current_path,
                 checkers_scene, metrics_positions, planning_scene_msg_,
                 planning_scene_diff_msg_, obstalces_positions_,
                 current_configuration_, current_configuration_copy,
                 current_path_shared_, current_path_sync_needed_,
                 current_path_copy, cost_current_copy, cost_other_copy,
                 cost_current_shared, cost_other_shared, tasks, mtx, cc_held,
                 rp_vars>>
  /\ UNCHANGED <<bank_vars, attached, d_vars, m_vars, published>>

\* <mutex>.lock(): blocks until the mutex is free
CCLock ==
  /\ cc_pc \in LockSteps
  /\ mtx[MutexOfStep(cc_pc)] = "free"
  /\ mtx' = [mtx EXCEPT ![MutexOfStep(cc_pc)] = "cc"]
  /\ cc_held' = Append(cc_held, MutexOfStep(cc_pc))
  /\ cc_pc' = AfterStep(cc_pc)
  /\ UNCHANGED <<cc_data, rp_vars>>
  /\ UNCHANGED <<bank_vars, attached, d_vars, m_vars, published>>

\* <mutex>.unlock()
CCUnlock ==
  /\ cc_pc \in UnlockSteps
  /\ mtx' = [mtx EXCEPT ![MutexOfStep(cc_pc)] = "free"]
  /\ cc_held' = SeqRemove(cc_held, MutexOfStep(cc_pc))
  /\ cc_pc' = AfterStep(cc_pc)
  /\ UNCHANGED <<cc_data, rp_vars>>
  /\ UNCHANGED <<bank_vars, attached, d_vars, m_vars, published>>

\* the first critical section: the new scene is given to every checker and
\* every SSM estimator
CCSetScene ==
  /\ cc_pc = "set_scene"
  /\ planning_scene_msg' = ps_srv
  /\ obstacles_positions' = updateObstaclesPositions(ps_srv)
  /\ checker_cc_scene' = SceneForCheckers(planning_scene_msg', planning_scene_diff_msg_)
  /\ ssm_current_path' = obstacles_positions'
  /\ checkers_scene' =
       [i \in 1..Len(checkers_scene) |->
          SceneForCheckers(planning_scene_msg', planning_scene_diff_msg_)]
  /\ metrics_positions' = [i \in 1..Len(metrics_positions) |-> obstacles_positions']
  /\ cc_pc' = "unlock_scene1"
  /\ UNCHANGED <<cc_exit, stop_, srv_up, world, ps_srv, planning_scene_msg_,
                 planning_scene_diff_msg_, obstalces_positions_,
                 current_configuration_, current_configuration_copy,
                 current_path_shared_, current_path_sync_needed_,
                 current_path_copy, cost_current_copy, cost_other_copy,
                 cost_current_shared, cost_other_shared, tasks, mtx, cc_held,
                 rp_vars>>
  /\ UNCHANGED <<bank_vars, attached, d_vars, m_vars, published>>

\* current_configuration_copy = current_configuration_; reclone when asked
CCSyncCurrent ==
  /\ cc_pc = "sync_current"
  /\ current_configuration_copy' = current_configuration_
  /\ IF current_path_sync_needed_
       THEN /\ current_path_copy' = current_path_shared_
            /\ cost_current_copy' = cost_current_shared
            /\ attached' = [attached EXCEPT !.current = "checker_cc_"]
            /\ current_path_sync_needed_' = FALSE
            /\ published' = [published EXCEPT !.clean = FALSE]
       ELSE UNCHANGED <<current_path_copy, cost_current_copy, attached,
                        current_path_sync_needed_, published>>
  /\ cc_pc' = "lock_other"
  /\ UNCHANGED <<cc_exit, stop_, srv_up, world, ps_srv, planning_scene_msg,
                 obstacles_positions, checker_cc_scene, ssm_current_path,
                 checkers_scene, metrics_positions, planning_scene_msg_,
                 planning_scene_diff_msg_, obstalces_positions_,
                 current_configuration_, current_path_shared_,
                 cost_other_copy, cost_current_shared, cost_other_shared,
                 tasks, mtx, cc_held, rp_vars>>
  /\ UNCHANGED <<bank_vars, d_vars, m_vars>>

\* if(other_path_size<other_paths_shared_.size()) { ... } and the loop that
\* reclones every alternate path whose flag is set. The assertion of the
\* growth branch ends the process when it is compiled in and fails; at(i)
\* throws when a flagged path has no copy.
CCSyncOthers ==
  /\ cc_pc = "sync_others"
  /\ LET n == Len(cost_other_shared)
         grow == other_path_size < n
         copy1 == IF grow THEN Append(cost_other_copy, cost_other_shared[n])
                  ELSE cost_other_copy
         flagged == {i \in 1..n : other_paths_sync_needed_[i]}
         bad == {i \in flagged : i > Len(copy1)}
         synced == IF bad = {} THEN flagged
                   ELSE {i \in flagged : i < SetMin(bad)}
     IN \/ /\ grow
           /\ other_path_size # n - 1
           /\ cc_pc' = "done"
           /\ cc_exit' = "assert"
           /\ UNCHANGED <<checkers_scene, metrics_positions, cost_other_copy,
                          other_path_size, other_paths_sync_needed_, attached,
                          published>>
        \/ /\ checkers_scene' = IF grow THEN Append(checkers_scene, checker_cc_scene)
                                 ELSE checkers_scene
           /\ metrics_positions' = IF grow THEN Append(metrics_positions, ssm_current_path)
                                    ELSE metrics_positions
           /\ other_path_size' = IF grow THEN Len(copy1) ELSE other_path_size
           /\ cost_other_copy' =
                [i \in 1..Len(copy1) |->
                   IF i \in synced THEN cost_other_shared[i] ELSE copy1[i]]
           /\ other_paths_sync_needed_' =
                [i \in 1..n |->
                   IF i \in synced THEN FALSE ELSE other_paths_sync_needed_[i]]
           /\ attached' =
                [attached EXCEPT !.others =
                   [i \in 1..Len(copy1) |->
                      IF i \in synced \/ i > Len(cost_other_copy)
                        THEN AttachedToCopy(i) ELSE attached.others[i]]]
           /\ published' = IF synced = {} THEN published
                           ELSE [published EXCEPT !.clean = FALSE]
           /\ IF bad = {}
                THEN cc_pc' = "unlock_other" /\ cc_exit' = cc_exit
                ELSE cc_pc' = "done" /\ cc_exit' = "exception"
  /\ UNCHANGED <<stop_, srv_up, world, ps_srv, planning_scene_msg,
                 obstacles_positions, checker_cc_scene, ssm_current_path,
                 planning_scene_msg_, planning_scene_diff_msg_,
                 obstalces_positions_, current_configuration_,
                 current_configuration_copy, current_path_shared_,
                 current_path_sync_needed_, current_path_copy,
                 cost_current_copy, cost_current_shared, cost_other_shared,
                 tasks, mtx, cc_held, rp_vars>>
  /\ UNCHANGED <<d_vars, m_vars>>

\* (current_configuration_copy - goal).norm() < goal_tol_
GoalReachedNever(q) == FALSE

GoalReached(q) == q = "at_goal"

\* if(norm(current_configuration_copy - goal) < goal_tol_) { stop_ = true; break; }
CCGoalTest ==
  /\ cc_pc = "goal_test"
  /\ IF GoalReached(current_configuration_copy)
       THEN stop_' = TRUE /\ cc_pc' = "done" /\ cc_exit' = "goal"
       ELSE cc_pc' = "launch" /\ UNCHANGED <<stop_, cc_exit>>
  /\ UNCHANGED <<srv_up, world, ps_srv, planning_scene_msg,
                 obstacles_positions, checker_cc_scene, ssm_current_path,
                 checkers_scene, metrics_positions, planning_scene_msg_,
                 planning_scene_diff_msg_, obstalces_positions_,
                 current_configuration_, current_configuration_copy,
                 current_path_shared_, current_path_sync_needed_,
                 current_path_copy, cost_current_copy, cost_other_copy,
                 cost_current_shared, cost_other_shared, tasks, mtx, cc_held,
                 rp_vars>>
  /\ UNCHANGED <<bank_vars, attached, d_vars, m_vars, published>>

\* tasks.push_back(std::async(std::launch::async, checkPathTask, copy i))
CCLaunchTasks ==
  /\ cc_pc = "launch"
  /\ tasks' = [i \in 1..Len(cost_other_copy) |-> "running"]
  /\ cc_pc' = "find_connection"
  /\ UNCHANGED <<cc_exit, stop_, srv_up, world, ps_srv, planning_scene_msg,
                 obstacles_positions, checker_cc_scene, ssm_current_path,
                 checkers_scene, metrics_positions, planning_scene_msg_,
                 planning_scene_diff_msg_, obstalces_positions_,
                 current_configuration_, current_configuration_copy,
                 current_path_shared_, current_path_sync_needed_,
                 current_path_copy, cost_current_copy, cost_other_copy,
                 cost_current_shared, cost_other_shared, mtx, cc_held,
                 rp_vars>>
  /\ UNCHANGED <<bank_vars, attached, d_vars, m_vars, published>>

\* checkPathTask on alternate copy i returns: the copy's costs now reflect
\* the scene its checker holds
TaskFinishes(i) ==
  /\ i \in 1..Len(tasks)
  /\ tasks[i] = "running"
  /\ tasks' = [tasks EXCEPT ![i] = "finished"]
  /\ cost_other_copy' = [cost_other_copy EXCEPT ![i] = checkers_scene[i]]
  /\ UNCHANGED <<cc_pc, cc_exit, stop_, srv_up, world, ps_srv,
                 planning_scene_msg, obstacles_positions, checker_cc_scene,
                 ssm_current_path, checkers_scene, metrics_positions,
                 planning_scene_msg_, planning_scene_diff_msg_,
                 obstalces_positions_, current_configuration_,
                 current_configuration_copy, current_path_shared_,
                 current_path_sync_needed_, current_path_copy,
                 cost_current_copy, cost_current_shared, cost_other_shared,
                 mtx, cc_held, rp_vars>>
  /\ UNCHANGED <<bank_vars, attached, d_vars, m_vars, published>>

\* Where `continue` resumes. `tasks` is a local of the loop body holding the
\* only references to the shared states std::async created, so leaving the
\* body destroys them, and that destruction blocks until each task is over.
ContinueTargetDetached == "head"

ContinueTarget == "tasks_dtor"

\* findConnection(...); if(conn_idx<0) continue; else isValidFromConf(...)
CCFindConnection ==
  /\ cc_pc = "find_connection"
  /\ IF current_configuration_copy = "off_path"
       THEN /\ cc_pc' = ContinueTarget
            /\ UNCHANGED cost_current_copy
       ELSE /\ cost_current_copy' = checker_cc_scene
            /\ cc_pc' = "wait"
  /\ UNCHANGED <<cc_exit, stop_, srv_up, world, ps_srv, planning_scene_msg,
                 obstacles_positions, checker_cc_scene, ssm_current_path,
                 checkers_scene, metrics_positions, planning_scene_msg_,
                 planning_scene_diff_msg_, obstalces_positions_,
                 current_configuration_, current_configuration_copy,
                 current_path_shared_, current_path_sync_needed_,
                 current_path_copy, cost_other_copy, cost_current_shared,
                 cost_other_shared, tasks, mtx, cc_held, rp_vars>>
  /\ UNCHANGED <<bank_vars, attached, d_vars, m_vars, published>>

\* ~shared_future for every element of `tasks` on the `continue` path
CCTasksDestroyed ==
  /\ cc_pc = "tasks_dtor"
  /\ \A i \in 1..Len(tasks) : tasks[i] # "running"
  /\ tasks' = <<>>
  /\ cc_pc' = "head"
  /\ UNCHANGED <<cc_exit, stop_, srv_up, world, ps_srv, planning_scene_msg,
                 obstacles_positions, checker_cc_scene, ssm_current_path,
                 checkers_scene, metrics_positions, planning_scene_msg_,
                 planning_scene_diff_msg_, obstalces_positions_,
                 current_configuration_, current_configuration_copy,
                 current_path_shared_, current_path_sync_needed_,
                 current_path_copy, cost_current_copy, cost_other_copy,
                 cost_current_shared, cost_other_shared, mtx, cc_held,
                 rp_vars>>
  /\ UNCHANGED <<bank_vars, attached, d_vars, m_vars, published>>

\* for(i...) tasks.at(i).wait();
CCWaitTasks ==
  /\ cc_pc = "wait"
  /\ \A i \in 1..Len(tasks) : tasks[i] # "running"
  /\ cc_pc' = "lock_scene2"
  /\ UNCHANGED <<cc_data, mtx, cc_held, rp_vars>>
  /\ UNCHANGED <<bank_vars, attached, d_vars, m_vars, published>>

\* updatePathsCost(current_path_copy, other_paths_copy): under paths_mtx and
\* other_paths_mtx the costs of the copies are written to the shared paths
CCUpdatePathsCost ==
  /\ cc_pc = "update_costs"
  /\ cost_current_shared' = cost_current_copy
  /\ cost_other_shared' =
       [i \in 1..Len(cost_other_shared) |->
          IF i <= Len(cost_other_copy) THEN cost_other_copy[i]
          ELSE cost_other_shared[i]]
  /\ cc_pc' = "upc_unlock_other"
  /\ UNCHANGED <<cc_exit, stop_, srv_up, world, ps_srv, planning_scene_msg,
                 obstacles_positions, checker_cc_scene, ssm_current_path,
                 checkers_scene, metrics_positions, planning_scene_msg_,
                 planning_scene_diff_msg_, obstalces_positions_,
                 current_configuration_, current_configuration_copy,
                 current_path_shared_, current_path_sync_needed_,
                 current_path_copy, cost_current_copy, cost_other_copy, tasks,
                 mtx, cc_held, rp_vars>>
  /\ UNCHANGED <<bank_vars, attached, d_vars, m_vars>>
  /\ published' =
       [valid |-> TRUE, clean |-> TRUE,
        repeat |-> /\ published.valid
                   /\ published.clean
                   /\ published.scene = planning_scene_msg
                   /\ published.conf = current_configuration_copy,
        scene |-> planning_scene_msg, conf |-> current_configuration_copy,
        current |-> cost_current_copy, others |-> cost_other_copy]

\* the commit of the shared scene messages and obstacle positions
CCCommit ==
  /\ cc_pc = "commit"
  /\ planning_scene_msg_' = ps_srv
  /\ planning_scene_diff_msg_' = planning_scene_msg
  /\ obstalces_positions_' = obstacles_positions
  /\ cc_pc' = "unlock_scene2"
  /\ UNCHANGED <<cc_exit, stop_, srv_up, world, ps_srv, planning_scene_msg,
                 obstacles_positions, checker_cc_scene, ssm_current_path,
                 checkers_scene, metrics_positions, current_configuration_,
                 current_configuration_copy, current_path_shared_,
                 current_path_sync_needed_, current_path_copy,
                 cost_current_copy, cost_other_copy, cost_current_shared,
                 cost_other_shared, tasks, mtx, cc_held, rp_vars>>
  /\ UNCHANGED <<bank_vars, attached, d_vars, m_vars, published>>

\* lp.sleep(); the loop body ends and `tasks` (all waited for) is destroyed
CCSleep ==
  /\ cc_pc = "sleep"
  /\ tasks' = <<>>
  /\ cc_pc' = "head"
  /\ UNCHANGED <<cc_exit, stop_, srv_up, world, ps_srv, planning_scene_msg,
                 obstacles_positions, checker_cc_scene, ssm_current_path,
                 checkers_scene, metrics_positions, planning_scene_msg_,
                 planning_scene_diff_msg_, obstalces_positions_,
                 current_configuration_, current_configuration_copy,
                 current_path_shared_, current_path_sync_needed_,
                 current_path_copy, cost_current_copy, cost_other_copy,
                 cost_current_shared, cost_other_shared, mtx, cc_held,
                 rp_vars>>
  /\ UNCHANGED <<bank_vars, attached, d_vars, m_vars, published>>

(***************************************************************************)
(* The environment: the world moves, the scene service goes away. Only the *)
(* service call looks at either, so they move right before it.             *)
(***************************************************************************)
WorldChanges ==
  /\ cc_pc = "call"
  /\ Len(world) < MaxWorld
  /\ \E obj \in WorldObjects : world' = Append(world, obj)
  /\ UNCHANGED <<cc_pc, cc_exit, stop_, srv_up, ps_srv, planning_scene_msg,
                 obstacles_positions, checker_cc_scene, ssm_current_path,
                 checkers_scene, metrics_positions, planning_scene_msg_,
                 planning_scene_diff_msg_, obstalces_positions_,
                 current_configuration_, current_configuration_copy,
                 current_path_shared_, current_path_sync_needed_,
                 current_path_copy, cost_current_copy, cost_other_copy,
                 cost_current_shared, cost_other_shared, tasks, mtx, cc_held,
                 rp_vars>>
  /\ UNCHANGED <<bank_vars, attached, d_vars, m_vars, published>>

ServiceFails ==
  /\ cc_pc = "call"
  /\ srv_up
  /\ srv_up' = FALSE
  /\ UNCHANGED <<cc_pc, cc_exit, stop_, world, ps_srv, planning_scene_msg,
                 obstacles_positions, checker_cc_scene, ssm_current_path,
                 checkers_scene, metrics_positions, planning_scene_msg_,
                 planning_scene_diff_msg_, obstalces_positions_,
                 current_configuration_, current_configuration_copy,
                 current_path_shared_, current_path_sync_needed_,
                 current_path_copy, cost_current_copy, cost_other_copy,
                 cost_current_shared, cost_other_shared, tasks, mtx, cc_held,
                 rp_vars>>
  /\ UNCHANGED <<bank_vars, attached, d_vars, m_vars, published>>

(***************************************************************************)
(* Another thread of the manager. It takes the mutexes in the documented   *)
(* order and releases them in reverse.                                     *)
(***************************************************************************)
RpMaxRank == IF rp_held = <<>> THEN 0 ELSE Rank(rp_held[Len(rp_held)])

RpRequest(m) ==
  /\ rp_want = NoMutex
  /\ ~stop_
  /\ Rank(m) > RpMaxRank
  /\ rp_want' = m
  /\ UNCHANGED <<cc_pc, cc_data, mtx, cc_held, rp_held>>
  /\ UNCHANGED <<bank_vars, attached, d_vars, m_vars, published>>

RpAcquire ==
  /\ rp_want # NoMutex
  /\ mtx[rp_want] = "free"
  /\ mtx' = [mtx EXCEPT ![rp_want] = "rp"]
  /\ rp_held' = Append(rp_held, rp_want)
  /\ rp_want' = NoMutex
  /\ UNCHANGED <<cc_pc, cc_data, cc_held>>
  /\ UNCHANGED <<bank_vars, attached, d_vars, m_vars, published>>

RpRelease ==
  /\ rp_want = NoMutex
  /\ rp_held # <<>>
  /\ mtx' = [mtx EXCEPT ![rp_held[Len(rp_held)]] = "free"]
  /\ rp_held' = SubSeq(rp_held, 1, Len(rp_held) - 1)
  /\ UNCHANGED <<cc_pc, cc_data, cc_held, rp_want>>
  /\ UNCHANGED <<bank_vars, attached, d_vars, m_vars, published>>

(***************************************************************************)
(* The critical sections of the trajectory and replanner sides, each taken *)
(* as one step at a moment its mutex is free, right before the thread asks *)
(* for that mutex: the thread looks at what the mutex guards only while it *)
(* holds it.                                                               *)
(***************************************************************************)
Configurations == {"on_path", "off_path", "at_goal"}

\* the trajectory side moves the robot
RpMoveRobot(q) ==
  /\ cc_pc = "lock_trj"
  /\ mtx["trj_mtx"] = "free"
  /\ q # current_configuration_
  /\ current_configuration_' = q
  /\ UNCHANGED <<cc_pc, cc_exit, stop_, srv_up, world, ps_srv,
                 planning_scene_msg, obstacles_positions, checker_cc_scene,
                 ssm_current_path, checkers_scene, metrics_positions,
                 planning_scene_msg_, planning_scene_diff_msg_,
                 obstalces_positions_, current_configuration_copy,
                 current_path_shared_, current_path_sync_needed_,
                 current_path_copy, cost_current_copy, cost_other_copy,
                 cost_current_shared, cost_other_shared, tasks, mtx, cc_held,
                 rp_vars>>
  /\ UNCHANGED <<bank_vars, attached, d_vars, m_vars, published>>

\* the replanner side installs a new current path and asks for a reclone
RpReplacePath ==
  /\ cc_pc \in {"lock_paths", "upc_lock_paths"}
  /\ mtx["paths_mtx"] = "free"
  /\ current_path_shared_ < MaxPathVersion
  /\ current_path_shared_' = current_path_shared_ + 1
  /\ current_path_sync_needed_' = TRUE
  /\ UNCHANGED <<cc_pc, cc_exit, stop_, srv_up, world, ps_srv,
                 planning_scene_msg, obstacles_positions, checker_cc_scene,
                 ssm_current_path, checkers_scene, metrics_positions,
                 planning_scene_msg_, planning_scene_diff_msg_,
                 obstalces_positions_, current_configuration_,
                 current_configuration_copy, current_path_copy,
                 cost_current_copy, cost_other_copy, cost_current_shared,
                 cost_other_shared, tasks, mtx, cc_held, rp_vars>>
  /\ UNCHANGED <<bank_vars, attached, d_vars, m_vars, published>>

\* the replanner side puts a replaced current path into the bank
RpAddOtherPath ==
  /\ cc_pc \in {"lock_other", "upc_lock_other"}
  /\ mtx["other_paths_mtx"] = "free"
  /\ Len(cost_other_shared) < MaxOther
  /\ cost_other_shared' = Append(cost_other_shared, cost_current_shared)
  /\ other_paths_sync_needed_' = Append(other_paths_sync_needed_, FALSE)
  /\ UNCHANGED <<cc_pc, cc_exit, stop_, srv_up, world, ps_srv,
                 planning_scene_msg, obstacles_positions, checker_cc_scene,
                 ssm_current_path, checkers_scene, metrics_positions,
                 planning_scene_msg_, planning_scene_diff_msg_,
                 obstalces_positions_, current_configuration_,
                 current_configuration_copy, current_path_shared_,
                 current_path_sync_needed_, current_path_copy,
                 cost_current_copy, cost_other_copy, cost_current_shared,
                 other_path_size, tasks, mtx, cc_held, rp_vars>>
  /\ UNCHANGED <<attached, d_vars, m_vars, published>>

\* the replanner side changed alternate path i and asks for a reclone
RpMarkOther(i) ==
  /\ cc_pc \in {"lock_other", "upc_lock_other"}
  /\ mtx["other_paths_mtx"] = "free"
  /\ i \in 1..Len(other_paths_sync_needed_)
  /\ ~other_paths_sync_needed_[i]
  /\ other_paths_sync_needed_' = [other_paths_sync_needed_ EXCEPT ![i] = TRUE]
  /\ UNCHANGED <<cc_pc, cc_data, mtx, cc_held, rp_vars, other_path_size>>
  /\ UNCHANGED <<attached, d_vars, m_vars, published>>

\* another thread ends the run
StopRequested ==
  /\ ~stop_
  /\ stop_' = TRUE
  /\ UNCHANGED <<cc_pc, cc_exit, srv_up, world, ps_srv, planning_scene_msg,
                 obstacles_positions, checker_cc_scene, ssm_current_path,
                 checkers_scene, metrics_positions, planning_scene_msg_,
                 planning_scene_diff_msg_, obstalces_positions_,
                 current_configuration_, current_configuration_copy,
                 current_path_shared_, current_path_sync_needed_,
                 current_path_copy, cost_current_copy, cost_other_copy,
                 cost_current_shared, cost_other_shared, tasks, mtx, cc_held,
                 rp_vars>>
  /\ UNCHANGED <<bank_vars, attached, d_vars, m_vars, published>>

\* the thread, with the world and the other sides changing the shared data
NextCC ==
  \/ CCLoopHead
  \/ CCCallScene
  \/ CCLock
  \/ CCUnlock
  \/ CCSetScene
  \/ CCSyncCurrent
  \/ CCSyncOthers
  \/ CCGoalTest
  \/ CCLaunchTasks
  \/ \E i \in 1..MaxOther : TaskFinishes(i)
  \/ CCFindConnection
  \/ CCTasksDestroyed
  \/ CCWaitTasks
  \/ CCUpdatePathsCost
  \/ CCCommit
  \/ CCSleep
  \/ WorldChanges
  \/ ServiceFails
  \/ \E q \in Configurations : RpMoveRobot(q)
  \/ RpReplacePath
  \/ RpAddOtherPath
  \/ \E i \in 1..MaxOther : RpMarkOther(i)
  \/ StopRequested

\* the thread next to a thread that competes for the mutexes
NextLocks ==
  \/ CCLoopHead
  \/ CCCallScene
  \/ CCLock
  \/ CCUnlock
  \/ CCSetScene
  \/ CCSyncCurrent
  \/ CCSyncOthers
  \/ CCGoalTest
  \/ CCLaunchTasks
  \/ \E i \in 1..MaxOther : TaskFinishes(i)
  \/ CCFindConnection
  \/ CCTasksDestroyed
  \/ CCWaitTasks
  \/ CCUpdatePathsCost
  \/ CCCommit
  \/ CCSleep
  \/ ServiceFails
  \/ \E m \in Mutexes : RpRequest(m)
  \/ RpAcquire
  \/ RpRelease
  \/ \E q \in Configurations : RpMoveRobot(q)
  \/ StopRequested


\* a step of the collision-check thread
CCThreadStep ==
  \/ CCLoopHead
  \/ CCCallScene
  \/ CCLock
  \/ CCUnlock
  \/ CCSetScene
  \/ CCSyncCurrent
  \/ CCSyncOthers
  \/ CCGoalTest
  \/ CCLaunchTasks
  \/ CCFindConnection
  \/ CCTasksDestroyed
  \/ CCWaitTasks
  \/ CCUpdatePathsCost
  \/ CCCommit
  \/ CCSleep

\* every thread that can take a step takes one in the end: the scene
\* service answers, a check task returns, a mutex that is held is released
CCFairness ==
  /\ WF_vars(CCThreadStep)
  /\ \A i \in 1..MaxOther : WF_vars(TaskFinishes(i))
  /\ WF_vars(RpAcquire)
  /\ WF_vars(RpRelease)

(***************************************************************************)
(* DynamicRRTStar. The tree is a set of nodes and a store of Connection    *)
(* objects (parent, child, cost, whether it is attached to its endpoints); *)
(* a Path is a sequence of Connection ids. The primitives of graph_core    *)
(* (Tree, Subtree, Path) follow their contract in the specification.       *)
(***************************************************************************)
MaxPathLen == 2     \* connections of the current path on entry
MaxNew == 1         \* nodes the sampling loop may add
Infinity == 1000    \* std::numeric_limits<double>::infinity()
MaxTime == 10000    \* max_time_, in clock units

NullNode == 0
Costs == {1, 2}
MetricCosts == {1, 2, 3}   \* what metrics_->cost may give for a new edge
TimePoints == {0, 9700, 9900}

\* a pass of the sampling loop: whether a node was added, whether it was
\* within max_distance of replan_goal, whether checkPath was called and what
\* it said, and whether replan_goal was reattached
NoTry ==
  [added |-> FALSE, within |-> FALSE, checked |-> FALSE, free |-> FALSE,
   reattached |-> FALSE]

Plus(a, b) == IF a >= Infinity \/ b >= Infinity THEN Infinity ELSE a + b

Attached(c) == {i \in 1..Len(c) : c[i].attached}
ParentConns(c, n) == {i \in Attached(c) : c[i].child = n}
ChildConns(c, n) == {i \in Attached(c) : c[i].parent = n}

\* Connection::remove() and a new attached Connection
Detach(c, i) == [c EXCEPT ![i].attached = FALSE]
NewConn(c, p, ch, cost) ==
  Append(c, [parent |-> p, child |-> ch, cost |-> cost, attached |-> TRUE])

\* Tree::getConnectionToNode: the connections from the root down to n
RECURSIVE UpChain(_, _, _)
UpChain(c, n, fuel) ==
  IF fuel = 0 \/ ParentConns(c, n) = {} THEN <<>>
  ELSE LET pc == SetMin(ParentConns(c, n))
       IN UpChain(c, c[pc].parent, fuel - 1) \o <<pc>>

getConnectionToNode(c, n) == UpChain(c, n, Len(c))

RECURSIVE SumCost(_, _)
SumCost(c, ids) ==
  IF ids = <<>> THEN 0 ELSE Plus(c[Head(ids)].cost, SumCost(c, Tail(ids)))

\* Tree::costToNode
costToNode(c, n) == SumCost(c, getConnectionToNode(c, n))

\* Tree::changeRoot: reverses the connections between the root and n
changeRoot(c, n) ==
  LET chain == SeqSet(getConnectionToNode(c, n))
  IN [i \in 1..Len(c) |->
        IF i \in chain
          THEN [c[i] EXCEPT !.parent = c[i].child, !.child = c[i].parent]
          ELSE c[i]]

\* Path::getNodes
getNodes(c, pth) ==
  IF pth = <<>> THEN <<>>
  ELSE <<c[pth[1]].parent>> \o [i \in 1..Len(pth) |-> c[pth[i]].child]

\* the path as (parent, child, cost) triples
PathEdges(c, pth) ==
  [i \in 1..Len(pth) |-> <<c[pth[i]].parent, c[pth[i]].child, c[pth[i]].cost>>]

TreeEdges(c) == {<<c[i].parent, c[i].child, c[i].cost>> : i \in Attached(c)}

\* Path::getCostFromConf is infinite when an obstructed stretch lies ahead
CostFromConfIsInfinite(c, pth, k, child_blocked) ==
  \/ c[pth[k]].cost = Infinity /\ child_blocked
  \/ \E j \in (k + 1)..Len(pth) : c[pth[j]].cost = Infinity

\* Subtree::createSubtree(tree, node, black_list): the nodes reached from
\* node without entering a black-listed node
RECURSIVE Reach(_, _, _, _)
Reach(c, frontier, seen, black) ==
  IF frontier = {} THEN seen
  ELSE LET nxt == {c[i].child : i \in {j \in Attached(c) : c[j].parent \in frontier}}
                    \ (seen \cup black)
       IN Reach(c, nxt, seen \cup nxt, black)

SubtreeNodes(c, n, black) == Reach(c, {n}, {n}, black)

\* nodes on the way from the root down to n, n included
Ancestors(c, n) ==
  {n} \cup {c[getConnectionToNode(c, n)[i]].parent :
              i \in 1..Len(getConnectionToNode(c, n))}

(***************************************************************************)
(* DynamicRRTStar::nodeBehindObs                                           *)
(***************************************************************************)
\* the index of the connection whose child becomes node_behind, for the
\* last obstructed connection i of a path of n connections
BehindIndexSame(i, n) == i

BehindIndexFirst(i, n) == 1

BehindIndex(i, n) == IF i < n THEN i + 1 ELSE i

nodeBehindObs(c, pth) ==
  LET obstructed == {i \in 1..Len(pth) : c[pth[i]].cost = Infinity}
  IN IF obstructed = {}
       THEN [found |-> FALSE, node |-> NullNode]
       ELSE [found |-> TRUE,
             node |-> c[pth[BehindIndex(SetMax(obstructed), Len(pth))]].child]


(***************************************************************************)
(* State on entry of replan(): a path of k connections from the root to    *)
(* the goal, possibly one more node hanging off the path, and the robot    *)
(* somewhere inside connection conf_conn.                                  *)
(***************************************************************************)
InitialConns(k, costs, extra) ==
  LET onpath == [i \in 1..k |-> [parent |-> i, child |-> i + 1,
                                 cost |-> costs[i], attached |-> TRUE]]
  IN IF extra = 0 THEN onpath
     ELSE Append(onpath, [parent |-> extra, child |-> k + 2, cost |-> 1,
                          attached |-> TRUE])

InitialNodes(k, extra) == IF extra = 0 THEN 1..(k + 1) ELSE 1..(k + 2)

DLocalsInit ==
  /\ replanned_conns = <<>>
  /\ ret = "none"
  /\ root = NullNode
  /\ node_replan = NullNode
  /\ replan_goal = NullNode
  /\ nb_found = FALSE
  /\ white_list = {}
  /\ cost2goal = Infinity
  /\ time = 0
  /\ clock = 0
  /\ last_try = NoTry
  /\ tree_modified = FALSE
  /\ n_sampled = 0
  /\ touched = FALSE

DInit ==
  /\ variant \in {1, 2}
  /\ d_pc = "replan"
  /\ \E k \in 1..MaxPathLen :
       \E costs \in [1..k -> {2, Infinity}] :
         \E extra \in {0, 1, k + 1} :
           /\ conn = InitialConns(k, costs, extra)
           /\ tree_nodes = InitialNodes(k, extra)
           /\ path = [i \in 1..k |-> i]
           /\ goal_node_ = k + 1
           /\ conf_conn \in 1..k
  /\ tree_root = 1
  /\ conf_child_blocked \in BOOLEAN
  /\ conf_child_blocked => conn[path[conf_conn]].cost = Infinity
  /\ success_ = TRUE
  /\ replanned_path_ \in (IF variant = 1 THEN {"null"}
                          ELSE {"null", "current_path", "prior_path"})
  /\ DLocalsInit
  /\ entry = [nodes |-> tree_nodes, edges |-> TreeEdges(conn),
              path |-> PathEdges(conn, path), root |-> tree_root]

\* the replanner at rest, while another part of the library is looked at
DIdle ==
  /\ variant = 1
  /\ d_pc = "idle"
  /\ conn = InitialConns(1, <<2>>, 0)
  /\ tree_nodes = InitialNodes(1, 0)
  /\ path = <<1>>
  /\ goal_node_ = 2
  /\ conf_conn = 1
  /\ tree_root = 1
  /\ conf_child_blocked = FALSE
  /\ success_ = FALSE
  /\ replanned_path_ = "null"
  /\ DLocalsInit
  /\ entry = [nodes |-> tree_nodes, edges |-> TreeEdges(conn),
              path |-> PathEdges(conn, path), root |-> tree_root]

(***************************************************************************)
(* DynamicRRTStar::replan                                                  *)
(***************************************************************************)
\* replan not needed: replanned_path_ = current_path_
ReplanNotNeededPathStale == replanned_path_

ReplanNotNeededPath == "current_path"

\* cost_from_conf = getCostFromConf(current_configuration_) and the branch
\* on it; the `replan not needed` branch returns at once
DReplanEntry ==
  /\ d_pc = "replan"
  /\ IF CostFromConfIsInfinite(conn, path, conf_conn, conf_child_blocked)
       THEN /\ d_pc' = "add_node"
            /\ success_' = IF variant = 1 THEN FALSE ELSE success_
            /\ UNCHANGED <<replanned_path_, ret>>
       ELSE /\ success_' = FALSE
            /\ replanned_path_' = ReplanNotNeededPath
            /\ ret' = FALSE
            /\ d_pc' = "done"
  /\ UNCHANGED <<variant, tree_nodes, tree_root, conn, path, goal_node_,
                 conf_conn, conf_child_blocked, replanned_conns, root,
                 node_replan, replan_goal, nb_found, white_list, cost2goal,
                 time, clock, last_try, tree_modified, n_sampled, touched, entry>>
  /\ UNCHANGED <<cc_vars, m_vars>>

\* Path::addNodeAtCurrentConfig: the connection holding the configuration is
\* replaced by two connections through a new node
SplitCosts(cost, child_blocked) ==
  IF cost < Infinity THEN {<<1, cost - 1>>}
  ELSE IF child_blocked THEN {<<1, Infinity>>, <<Infinity, Infinity>>}
  ELSE {<<Infinity, 1>>}

DAddNode ==
  /\ d_pc = "add_node"
  /\ LET old == path[conf_conn]
         n == SetMax(tree_nodes) + 1
     IN \E halves \in SplitCosts(conn[old].cost, conf_child_blocked) :
          /\ conn' = NewConn(NewConn(Detach(conn, old), conn[old].parent, n, halves[1]),
                             n, conn[old].child, halves[2])
          /\ path' = SubSeq(path, 1, conf_conn - 1)
                       \o <<Len(conn) + 1, Len(conn) + 2>>
                       \o SubSeq(path, conf_conn + 1, Len(path))
          /\ tree_nodes' = tree_nodes \cup {n}
          /\ node_replan' = n
  /\ root' = tree_root
  /\ d_pc' = "behind_entry"
  /\ UNCHANGED <<variant, tree_root, goal_node_, conf_conn, conf_child_blocked,
                 success_, replanned_path_, replanned_conns, ret, replan_goal,
                 nb_found, white_list, cost2goal, time, clock, last_try, tree_modified,
                 n_sampled, touched, entry>>
  /\ UNCHANGED <<cc_vars, m_vars>>

\* rewireBehindObs / connectBehindObs up to the two early returns
DBehindEntry ==
  /\ d_pc = "behind_entry"
  /\ success_' = FALSE
  /\ tree_modified' = FALSE
  /\ IF node_replan \notin tree_nodes
       THEN /\ d_pc' = "after_behind"
            /\ UNCHANGED <<nb_found, replan_goal>>
       ELSE /\ nb_found' = nodeBehindObs(conn, path).found
            /\ replan_goal' = nodeBehindObs(conn, path).node
            /\ d_pc' = IF nb_found' THEN "phase_a" ELSE "after_behind"
  /\ UNCHANGED <<variant, tree_nodes, tree_root, conn, path, goal_node_,
                 conf_conn, conf_child_blocked, replanned_path_,
                 replanned_conns, ret, root, node_replan, white_list,
                 cost2goal, time, clock, last_try, n_sampled, touched, entry>>
  /\ UNCHANGED <<cc_vars, m_vars>>


\* toc: what the clock may show when it is read after it showed t
ClockReadings(t) == {u \in TimePoints : u >= t}

\* the deadline the sampling loop compares the elapsed time with:
\* variant 1: max_time = 0.98*max_time_; while(time < 0.98*max_time)
\* variant 2: while((0.98*max_time_) - elapsed > 0.0)
Deadline(v) ==
  IF v = 1 THEN (98 * ((98 * MaxTime) \div 100)) \div 100
  ELSE (98 * MaxTime) \div 100

\* Tree::rewireOnlyWithPathCheck(node, ..., white_list, 2): the nodes it may
\* hang under node: in the tree, not white-listed, not already a child of
\* node, and cheaper to reach through node
PhaseACandidates(c, node, wl, nodes) ==
  {m \in nodes \ (wl \cup {node}) :
     /\ ParentConns(c, m) # {}
     /\ c[SetMin(ParentConns(c, m))].parent # node
     /\ 1 < costToNode(c, m)}

Reparent(c, m, p, cost) == NewConn(Detach(c, SetMin(ParentConns(c, m))), p, m, cost)

\* STEP 1: the white list, the change of root, the local rewiring; then the
\* set-up of the sampling loop and the first reading of the clock
DPhaseA ==
  /\ d_pc = "phase_a"
  /\ white_list' = SeqSet(getNodes(conn, path))
  /\ tree_root' = node_replan
  /\ LET c1 == changeRoot(conn, node_replan)
     IN \/ /\ conn' = c1
           /\ tree_modified' = FALSE
           /\ touched' = FALSE
        \/ \E m \in PhaseACandidates(c1, node_replan, white_list', tree_nodes) :
             /\ conn' = Reparent(c1, m, node_replan, 1)
             /\ tree_modified' = (variant = 2)
             /\ touched' = TRUE
  /\ cost2goal' = Infinity
  /\ time' \in ClockReadings(0)
  /\ clock' = time'
  /\ last_try' = NoTry
  /\ d_pc' = "loop_test"
  /\ UNCHANGED <<variant, tree_nodes, path, goal_node_, conf_conn,
                 conf_child_blocked, success_, replanned_path_,
                 replanned_conns, ret, root, node_replan, replan_goal,
                 nb_found, n_sampled, entry>>
  /\ UNCHANGED <<cc_vars, m_vars>>

\* the condition of the sampling loop
DLoopTest ==
  /\ d_pc = "loop_test"
  /\ d_pc' = IF time < Deadline(variant) THEN "iterate" ELSE "after_loop"
  /\ UNCHANGED <<variant, tree_nodes, tree_root, conn, path, goal_node_,
                 conf_conn, conf_child_blocked, success_, replanned_path_,
                 replanned_conns, ret, root, node_replan, replan_goal,
                 nb_found, white_list, cost2goal, time, clock, last_try, tree_modified,
                 n_sampled, touched, entry>>
  /\ UNCHANGED <<cc_vars, m_vars>>

\* the nodes the sampling loop extends from: the subtree rooted at node with
\* replan_goal hidden (variant 1), the whole tree (variant 2)
SearchNodes ==
  IF variant = 1 THEN SubtreeNodes(conn, node_replan, {replan_goal})
  ELSE tree_nodes

\* rewireWithPathCheck(q, ...) succeeded: new node nn under p, and possibly
\* one node that is not white-listed rewired under nn
AfterRewire(nn, p, c) ==
  LET c1 == NewConn(conn, p, nn, c)
  IN {c1} \cup
     {Reparent(c1, m, nn, 1) :
        m \in {x \in SearchNodes \ (white_list \cup Ancestors(c1, nn)) :
                 /\ ParentConns(c1, x) # {}
                 /\ Plus(costToNode(c1, nn), 1) < costToNode(c1, x)}}

\* the new connection added with the old parent connection left in place
ReattachKeepingOld(c, nn, goal, cost) == NewConn(c, nn, goal, cost)

\* replan_goal leaves its parent and hangs under nn
Reattach(c, nn, goal, cost) ==
  LET c1 == IF ParentConns(c, goal) # {}
              THEN Detach(c, SetMin(ParentConns(c, goal)))
              ELSE c
  IN NewConn(c1, nn, goal, cost)

\* if((cost2new_node+distance_new_node_goal) < cost2goal) checkPath(...)
CheckerAsked(cost2new, dist, best) == Plus(cost2new, dist) < best

\* the three conditions under which replan_goal is reattached
MayReattach(cost2new, dist, best, free) == Plus(cost2new, dist) < best /\ free

\* one pass through the body of the sampling loop
DIterate ==
  /\ d_pc = "iterate"
  /\ d_pc' = "loop_test"
  /\ \/ \* rewireWithPathCheck returned false
        /\ clock' \in ClockReadings(clock)
        /\ time' = clock'
        /\ last_try' = NoTry
        /\ UNCHANGED <<conn, tree_nodes, cost2goal, success_, tree_modified,
                       n_sampled, touched>>
     \/ /\ n_sampled < MaxNew
        /\ n_sampled' = n_sampled + 1
        /\ touched' = TRUE
        /\ tree_modified' = IF variant = 2 THEN TRUE ELSE tree_modified
        /\ LET nn == SetMax(tree_nodes) + 1
           IN /\ tree_nodes' = tree_nodes \cup {nn}
              /\ \E p \in SearchNodes :
                   \E c2 \in AfterRewire(nn, p, 1) :
                     \/ \* distance_new_node_goal > max_distance: continue,
                        \* past the statement that reads the clock
                        /\ conn' = c2
                        /\ clock' \in ClockReadings(clock)
                        /\ last_try' = [NoTry EXCEPT !.added = TRUE]
                        /\ UNCHANGED <<time, cost2goal, success_>>
                     \/ \* dist: norm(new_node - replan_goal); cost: what
                        \* metrics_->cost gives for the same two; free:
                        \* what checker_->checkPath says when it is asked
                        \E dist \in Costs, cost \in MetricCosts, free \in BOOLEAN :
                          /\ clock' \in ClockReadings(clock)
                          /\ time' = clock'
                          /\ last_try' =
                               [added |-> TRUE, within |-> TRUE,
                                checked |-> CheckerAsked(costToNode(c2, nn), dist, cost2goal),
                                free |-> CheckerAsked(costToNode(c2, nn), dist, cost2goal) /\ free,
                                reattached |-> MayReattach(costToNode(c2, nn), dist, cost2goal, free)]
                          /\ IF MayReattach(costToNode(c2, nn), dist, cost2goal, free)
                               THEN /\ conn' = Reattach(c2, nn, replan_goal, cost)
                                    /\ cost2goal' = Plus(cost, costToNode(c2, nn))
                                    /\ success_' = TRUE
                               ELSE /\ conn' = c2
                                    /\ UNCHANGED <<cost2goal, success_>>
  /\ UNCHANGED <<variant, tree_root, path, goal_node_, conf_conn,
                 conf_child_blocked, replanned_path_, replanned_conns, ret,
                 root, node_replan, replan_goal, nb_found, white_list, entry>>
  /\ UNCHANGED <<cc_vars, m_vars>>

\* Path::getSubpathFromNode(n)->getConnections(): the connections of the
\* path after the one that ends in n
SubpathFromNode(c, pth, n) ==
  LET at == {i \in 1..Len(pth) : c[pth[i]].child = n}
  IN IF at = {} THEN <<>> ELSE SubSeq(pth, SetMax(at) + 1, Len(pth))

\* the Path object a repair delivers: std::make_shared<Path>(...)
ReplannedPathObjectAliased == "current_path"

ReplannedPathObject == "new_path"

\* after the sampling loop: the replanned path is built
\* variant 1: if(success_) { path to goal_node_; tree->changeRoot(root); }
\* variant 2: if(tree_modified) { path to replan_goal + rest of the current path }
DAfterLoop ==
  /\ d_pc = "after_loop"
  /\ d_pc' = "after_behind"
  /\ IF variant = 1
       THEN IF success_
              THEN /\ replanned_conns' = getConnectionToNode(conn, goal_node_)
                   /\ replanned_path_' = ReplannedPathObject
                   /\ conn' = changeRoot(conn, root)
                   /\ tree_root' = root
              ELSE UNCHANGED <<replanned_conns, replanned_path_, conn, tree_root>>
       ELSE IF tree_modified
              THEN /\ replanned_conns' =
                        getConnectionToNode(conn, replan_goal)
                          \o (IF replan_goal # goal_node_
                                THEN SubpathFromNode(conn, path, replan_goal)
                                ELSE <<>>)
                   /\ replanned_path_' = ReplannedPathObject
                   /\ UNCHANGED <<conn, tree_root>>
              ELSE UNCHANGED <<replanned_conns, replanned_path_, conn, tree_root>>
  /\ UNCHANGED <<variant, tree_nodes, path, goal_node_, conf_conn,
                 conf_child_blocked, success_, ret, root, node_replan,
                 replan_goal, nb_found, white_list, cost2goal, time, clock, last_try, tree_modified, n_sampled, touched, entry>>
  /\ UNCHANGED <<cc_vars, m_vars>>

\* Path::removeNode(node, white_list): a node of the path with one parent
\* connection and one child connection, both of the path, is taken out and
\* the two connections are merged
Removable(c, pth, n, tr) ==
  /\ n # tr
  /\ Cardinality(ParentConns(c, n)) = 1
  /\ Cardinality(ChildConns(c, n)) = 1
  /\ \E k \in 1..(Len(pth) - 1) :
       /\ pth[k] \in ParentConns(c, n)
       /\ pth[k + 1] \in ChildConns(c, n)

RemovedConns(c, pth, n) ==
  LET k == CHOOSE i \in 1..(Len(pth) - 1) :
             pth[i] \in ParentConns(c, n) /\ pth[i + 1] \in ChildConns(c, n)
  IN NewConn(Detach(Detach(c, pth[k]), pth[k + 1]),
             c[pth[k]].parent, c[pth[k + 1]].child,
             Plus(c[pth[k]].cost, c[pth[k + 1]].cost))

RemovedPath(c, pth, n) ==
  LET k == CHOOSE i \in 1..(Len(pth) - 1) :
             pth[i] \in ParentConns(c, n) /\ pth[i + 1] \in ChildConns(c, n)
  IN SubSeq(pth, 1, k - 1) \o <<Len(c) + 1>> \o SubSeq(pth, k + 2, Len(pth))

\* what replan() returns on the failure branch of variant 1: whether the
\* path is changed, that is, whether node_replan could not be removed
PathChangedAlwaysFalse(removed) == FALSE

PathChangedAlwaysTrue(removed) == TRUE

PathChanged(removed) == ~removed

\* the root the failure branch of variant 1 puts back
RootToRestoreKept(r) == tree_root

RootToRestore(r) == r

\* replan() after rewireBehindObs (variant 1)
DAfterRewireBehindObs ==
  /\ d_pc = "after_behind"
  /\ variant = 1
  /\ d_pc' = "done"
  /\ IF success_
       THEN /\ ret' = TRUE
            /\ UNCHANGED <<conn, tree_root, path, tree_nodes>>
       ELSE LET c1 == changeRoot(conn, RootToRestore(root))
                tr == RootToRestore(root)
            IN /\ tree_root' = tr
               /\ IF Removable(c1, path, node_replan, tr)
                    THEN /\ conn' = RemovedConns(c1, path, node_replan)
                         /\ path' = RemovedPath(c1, path, node_replan)
                         /\ tree_nodes' = tree_nodes \ {node_replan}
                         /\ ret' = PathChanged(TRUE)
                    ELSE /\ conn' = c1
                         /\ ret' = PathChanged(FALSE)
                         /\ UNCHANGED <<path, tree_nodes>>
  /\ UNCHANGED <<variant, goal_node_, conf_conn, conf_child_blocked, success_,
                 replanned_path_, replanned_conns, root, node_replan,
                 replan_goal, nb_found, white_list, cost2goal, time, clock, last_try, tree_modified, n_sampled, touched, entry>>
  /\ UNCHANGED <<cc_vars, m_vars>>

\* replan() after connectBehindObs (variant 2): only when the tree was not
\* modified is the root put back, through replanned_path_
DAfterConnectBehindObs ==
  /\ d_pc = "after_behind"
  /\ variant = 2
  /\ IF tree_modified
       THEN /\ ret' = TRUE
            /\ d_pc' = "done"
            /\ UNCHANGED <<conn, tree_root, path, tree_nodes>>
       ELSE \/ \* replanned_path_ is the current path
               /\ replanned_path_ = "current_path"
               /\ LET c1 == changeRoot(conn, root)
                  IN /\ tree_root' = root
                     /\ IF Removable(c1, path, node_replan, root)
                          THEN /\ conn' = RemovedConns(c1, path, node_replan)
                               /\ path' = RemovedPath(c1, path, node_replan)
                               /\ tree_nodes' = tree_nodes \ {node_replan}
                          ELSE /\ conn' = c1
                               /\ UNCHANGED <<path, tree_nodes>>
               /\ ret' = FALSE
               /\ d_pc' = "done"
            \/ \* replanned_path_ is null: the dereference ends the process
               /\ replanned_path_ = "null"
               /\ d_pc' = "crashed"
               /\ UNCHANGED <<ret, conn, tree_root, path, tree_nodes>>
            \/ \* replanned_path_ is a path of another tree, which does not
               \* hold root: changeRoot fails and assert(0) aborts
               /\ replanned_path_ = "prior_path"
               /\ d_pc' = "crashed"
               /\ UNCHANGED <<ret, conn, tree_root, path, tree_nodes>>
            \/ \* the same without assertions: the other path is cleaned,
               \* the current tree is left as it is
               /\ replanned_path_ = "prior_path"
               /\ ret' = FALSE
               /\ d_pc' = "done"
               /\ UNCHANGED <<conn, tree_root, path, tree_nodes>>
  /\ UNCHANGED <<variant, goal_node_, conf_conn, conf_child_blocked, success_,
                 replanned_path_, replanned_conns, root, node_replan,
                 replan_goal, nb_found, white_list, cost2goal, time, clock, last_try, tree_modified, n_sampled, touched, entry>>
  /\ UNCHANGED <<cc_vars, m_vars>>

(***************************************************************************)
(* ReplannerManagerDRRTStar::startReplannedPathFromNewCurrentConf, called   *)
(* by the manager once replan() is over. The configuration lies inside a   *)
(* connection of the replanner's current path that is still in the tree.   *)
(***************************************************************************)
\* tree->changeRoot(current_node)
NewRootOfStartKept(current_node) == tree_root

NewRootOfStart(current_node) == current_node

\* connections of the current path a configuration of the robot can lie in
StartConnections == {k \in 1..Len(path) : conn[path[k]].attached}

DStartReplannedPath ==
  /\ d_pc = "done"
  /\ \/ \* replanned_path_ was never set: setConnections on a null pointer
        /\ replanned_path_ = "null"
        /\ d_pc' = "crashed"
        /\ UNCHANGED <<tree_nodes, tree_root, conn, path, replanned_conns>>
     \/ /\ replanned_path_ # "null"
        /\ d_pc' = "started"
        /\ \E k \in StartConnections :
             LET old == path[k]
                 current_node == SetMax(tree_nodes) + 1
                 blocked == IF conn[old].cost = Infinity THEN BOOLEAN ELSE {FALSE}
             IN \E b \in blocked :
                  \E halves \in SplitCosts(conn[old].cost, b) :
                    LET c1 == NewConn(NewConn(Detach(conn, old),
                                              conn[old].parent, current_node, halves[1]),
                                      current_node, conn[old].child, halves[2])
                        c2 == changeRoot(c1, NewRootOfStart(current_node))
                        new_conns == getConnectionToNode(c2, goal_node_)
                    IN /\ conn' = c2
                       /\ tree_nodes' = tree_nodes \cup {current_node}
                       /\ tree_root' = NewRootOfStart(current_node)
                       /\ replanned_conns' = new_conns
                       /\ path' = IF replanned_path_ = "current_path"
                                    THEN new_conns
                                    ELSE SubSeq(path, 1, k - 1)
                                           \o <<Len(conn) + 1, Len(conn) + 2>>
                                           \o SubSeq(path, k + 1, Len(path))
  /\ UNCHANGED <<variant, goal_node_, conf_conn, conf_child_blocked, success_,
                 replanned_path_, ret, root, node_replan, replan_goal,
                 nb_found, white_list, cost2goal, time, clock, last_try, tree_modified,
                 n_sampled, touched, entry>>
  /\ UNCHANGED <<cc_vars, m_vars>>

InitCC == CCInit /\ DIdle /\ MIdle

InitDRRT == CCInit /\ DInit /\ MIdle

NextDRRT ==
  \/ DReplanEntry
  \/ DAddNode
  \/ DBehindEntry
  \/ DPhaseA
  \/ DLoopTest
  \/ DIterate
  \/ DAfterLoop
  \/ DAfterRewireBehindObs
  \/ DAfterConnectBehindObs

\* replan() followed by the manager's restart of the replanned path
NextStart ==
  \/ DReplanEntry
  \/ DAddNode
  \/ DBehindEntry
  \/ DPhaseA
  \/ DLoopTest
  \/ DIterate
  \/ DAfterLoop
  \/ DAfterRewireBehindObs
  \/ DAfterConnectBehindObs
  \/ DStartReplannedPath

(***************************************************************************)
(* nodeBehindObs on its own, over every small path.                        *)
(***************************************************************************)
NBMaxLen == 4       \* connections of the path nodeBehindObs is given

NBInit ==
  /\ variant \in {1, 2}
  /\ d_pc = "nb_call"
  /\ \E k \in 1..NBMaxLen :
       \E costs \in [1..k -> {1, 2, Infinity}] :
         /\ conn = InitialConns(k, costs, 0)
         /\ tree_nodes = InitialNodes(k, 0)
         /\ path = [i \in 1..k |-> i]
         /\ goal_node_ = k + 1
  /\ conf_conn = 1
  /\ tree_root = 1
  /\ conf_child_blocked = FALSE
  /\ success_ = FALSE
  /\ replanned_path_ = "null"
  /\ DLocalsInit
  /\ entry = [nodes |-> tree_nodes, edges |-> TreeEdges(conn),
              path |-> PathEdges(conn, path), root |-> tree_root]

NBCall ==
  /\ d_pc = "nb_call"
  /\ nb_found' = nodeBehindObs(conn, path).found
  /\ replan_goal' = nodeBehindObs(conn, path).node
  /\ d_pc' = "nb_done"
  /\ UNCHANGED <<variant, tree_nodes, tree_root, conn, path, goal_node_,
                 conf_conn, conf_child_blocked, success_, replanned_path_,
                 replanned_conns, ret, root, node_replan, white_list,
                 cost2goal, time, clock, last_try, tree_modified, n_sampled, touched,
                 entry>>
  /\ UNCHANGED <<cc_vars, m_vars>>

InitNB == CCInit /\ NBInit /\ MIdle

NextNB == NBCall

(***************************************************************************)
(* rewireBehindObs / connectBehindObs entered with a precondition that     *)
(* does not hold: the node made at the current configuration is not in the *)
(* tree, or no connection of the path has infinite cost.                   *)
(***************************************************************************)
PreInit ==
  /\ variant \in {1, 2}
  /\ d_pc = "behind_entry"
  /\ \E k \in 1..MaxPathLen :
       \E costs \in [1..k -> {2, Infinity}] :
         \E extra \in {0, 1, k + 1} :
           \E at \in 1..k, in_tree \in BOOLEAN, blocked \in BOOLEAN :
             \E halves \in SplitCosts(costs[at], blocked) :
               LET c0 == InitialConns(k, costs, extra)
                   n == SetMax(InitialNodes(k, extra)) + 1
               IN /\ blocked => costs[at] = Infinity
                  /\ ~in_tree \/ \A i \in 1..k : costs[i] # Infinity
                  /\ conn = NewConn(NewConn(Detach(c0, at), c0[at].parent, n, halves[1]),
                                    n, c0[at].child, halves[2])
                  /\ path = [i \in 1..(at - 1) |-> i]
                              \o <<Len(c0) + 1, Len(c0) + 2>>
                              \o [i \in 1..(k - at) |-> at + i]
                  /\ tree_nodes = IF in_tree THEN InitialNodes(k, extra) \cup {n}
                                  ELSE InitialNodes(k, extra)
                  /\ node_replan = n
                  /\ goal_node_ = k + 1
                  /\ conf_conn = at
                  /\ conf_child_blocked = blocked
                  /\ entry = [nodes |-> InitialNodes(k, extra),
                              edges |-> TreeEdges(c0),
                              path |-> PathEdges(c0, [i \in 1..k |-> i]),
                              root |-> 1]
  /\ tree_root = 1
  /\ root = 1
  /\ success_ = (variant = 2)
  /\ replanned_path_ \in (IF variant = 1 THEN {"null"}
                          ELSE {"null", "current_path", "prior_path"})
  /\ replanned_conns = <<>>
  /\ ret = "none"
  /\ replan_goal = NullNode
  /\ nb_found = FALSE
  /\ white_list = {}
  /\ cost2goal = Infinity
  /\ time = 0
  /\ clock = 0
  /\ last_try = NoTry
  /\ tree_modified = FALSE
  /\ n_sampled = 0
  /\ touched = FALSE

InitPre == CCInit /\ PreInit /\ MIdle

NextPre ==
  \/ DBehindEntry
  \/ DAfterRewireBehindObs
  \/ DAfterConnectBehindObs

(***************************************************************************)
(* The first critical section of a cycle on its own, for every small world *)
(* the scene service can return.                                           *)
(***************************************************************************)
ObsMaxLen == 3      \* collision objects of the world

ObsObjects == [id : {"human", "box", "cart"}, pos : {1, 2}]

ObsWorlds == UNION {[1..k -> ObsObjects] : k \in 0..ObsMaxLen}

\* the thread holds scene_mtx_ and is about to hand out the scene it got
ObsInit ==
  /\ cc_pc = "set_scene"
  /\ cc_exit = "none"
  /\ stop_ = FALSE
  /\ srv_up = TRUE
  /\ world \in ObsWorlds
  /\ ps_srv = world
  /\ planning_scene_msg = <<>>
  /\ obstacles_positions = <<>>
  /\ checker_cc_scene = <<>>
  /\ ssm_current_path = <<>>
  /\ checkers_scene = [i \in OtherIdx |-> <<>>]
  /\ metrics_positions = [i \in OtherIdx |-> <<>>]
  /\ planning_scene_msg_ = <<>>
  /\ planning_scene_diff_msg_ = <<>>
  /\ obstalces_positions_ = <<>>
  /\ current_configuration_ = "on_path"
  /\ current_configuration_copy = "on_path"
  /\ current_path_shared_ = 0
  /\ current_path_sync_needed_ = FALSE
  /\ current_path_copy = 0
  /\ cost_current_copy = <<>>
  /\ cost_other_copy = [i \in OtherIdx |-> <<>>]
  /\ cost_current_shared = <<>>
  /\ cost_other_shared = [i \in OtherIdx |-> <<>>]
  /\ other_path_size = NOtherPaths
  /\ other_paths_sync_needed_ = [i \in OtherIdx |-> FALSE]
  /\ tasks = <<>>
  /\ mtx = [m \in Mutexes |-> IF m = "scene_mtx" THEN "cc" ELSE "free"]
  /\ cc_held = <<"scene_mtx">>
  /\ rp_held = <<>>
  /\ rp_want = NoMutex
  /\ attached = [current |-> "checker_cc_",
                 others |-> [i \in OtherIdx |-> AttachedToCopy(i)]]
  /\ published = NothingPublished

InitObs == ObsInit /\ DIdle /\ MIdle

NextObs == CCSetScene

(***************************************************************************)
(* The sampling loop on its own, from the states in which a first node has *)
(* been added under node_replan and replan_goal hangs under it.            *)
(***************************************************************************)
LoopShape(k, at, c1, t, ns) ==
  LET costs == [i \in 1..k |-> IF i = at THEN Infinity ELSE 2]
      c0 == InitialConns(k, costs, 0)
      n == k + 2
      nn == k + 3
      split == NewConn(NewConn(Detach(c0, at), at, n, 1), n, at + 1, Infinity)
      split_path == [i \in 1..(at - 1) |-> i] \o <<k + 1, k + 2>>
                      \o [i \in 1..(k - at) |-> at + i]
      added == NewConn(changeRoot(split, n), n, nn, 1)
  IN /\ d_pc = "loop_test"
     /\ tree_nodes = 1..nn
     /\ tree_root = n
     /\ conn = Reattach(added, nn, at + 1, c1)
     /\ path = split_path
     /\ goal_node_ = k + 1
     /\ conf_conn = at
     /\ conf_child_blocked = TRUE
     /\ success_ = TRUE
     /\ replanned_conns = <<>>
     /\ ret = "none"
     /\ root = 1
     /\ node_replan = n
     /\ replan_goal = at + 1
     /\ nb_found = TRUE
     /\ white_list = SeqSet(getNodes(split, split_path))
     /\ cost2goal = Plus(c1, costToNode(added, nn))
     /\ time = t
     /\ clock = t
     /\ last_try = [added |-> TRUE, within |-> TRUE, checked |-> TRUE,
                    free |-> TRUE, reattached |-> TRUE]
     /\ tree_modified = (variant = 2)
     /\ n_sampled = ns
     /\ touched = TRUE
     /\ entry = [nodes |-> InitialNodes(k, 0), edges |-> TreeEdges(c0),
                 path |-> PathEdges(c0, [i \in 1..k |-> i]), root |-> 1]

LoopInit ==
  /\ variant \in {1, 2}
  /\ replanned_path_ \in (IF variant = 1 THEN {"null"}
                          ELSE {"null", "current_path", "prior_path"})
  /\ \E k \in 1..MaxPathLen, c1 \in MetricCosts, t \in TimePoints :
       LoopShape(k, k, c1, t, 0)

InitLoop == CCInit /\ LoopInit /\ MIdle

NextLoop == DLoopTest \/ DIterate

(***************************************************************************)
(* ReplannerManagerMARSHA::initReplanner.                                  *)
(***************************************************************************)
DtReplans == {100, 200}

\* double time_for_repl = 0.9*dt_replan_
TimeForRepl(dt) == (9 * dt) \div 10

\* the replanners a manager may hold: what the model keeps of a MARSHA object
Replanners ==
  [full_net_search : BOOLEAN, reverse_start_nodes : BOOLEAN,
   max_time : {TimeForRepl(dt) : dt \in DtReplans}]

\* the value full_net_search_ is given before it is passed on
ForcedFullNetSearchKept(before) == before

ForcedFullNetSearch(before) == FALSE

\* MARSHA::reverseStartNodes(v), MARSHA::setFullNetSearch(v)
reverseStartNodes(r, v) == [r EXCEPT !.reverse_start_nodes = v]

setFullNetSearch(r, v) == [r EXCEPT !.full_net_search = v]

\* the manager before the call: any flags, metrics given or not, a replanner
\* of an earlier call or none
MInit ==
  /\ m_pc = "call"
  /\ m_warned = FALSE
  /\ full_net_search_ \in BOOLEAN
  /\ ha_metrics_ \in {"null", "set"}
  /\ reverse_start_nodes_ \in BOOLEAN
  /\ dt_replan_ \in DtReplans
  /\ replanner_ \in {{}} \cup {{r} : r \in Replanners}
  /\ ha_ssm_positions = <<>>

initReplanner ==
  /\ m_pc = "call"
  /\ IF ha_metrics_ = "null"
       THEN \* throw std::runtime_error("HA metrics not defined!")
            /\ m_pc' = "threw"
            /\ UNCHANGED <<m_warned, full_net_search_, replanner_>>
       ELSE \E made \in Replanners :
              /\ made.max_time = TimeForRepl(dt_replan_)
              /\ m_warned' = full_net_search_
              /\ full_net_search_' = ForcedFullNetSearch(full_net_search_)
              /\ replanner_' =
                   {setFullNetSearch(reverseStartNodes(made, reverse_start_nodes_),
                                     full_net_search_')}
              /\ m_pc' = "returned"
  /\ UNCHANGED <<ha_metrics_, reverse_start_nodes_, dt_replan_,
                 ha_ssm_positions>>
  /\ UNCHANGED <<cc_vars, d_vars>>

(***************************************************************************)
(* ReplannerManagerMARSHA::syncPathCost, on the replanning thread. The     *)
(* function takes no mutex itself; the thread calls it inside the critical *)
(* section in which it reads the shared scene.                             *)
(***************************************************************************)
syncPathCost ==
  /\ rp_want = NoMutex
  /\ "scene_mtx" \in SeqSet(rp_held)
  /\ ha_ssm_positions' = obstalces_positions_
  /\ UNCHANGED <<cc_vars, d_vars, init_vars>>

NextScene == NextLocks \/ WorldChanges \/ syncPathCost


InitM == CCInit /\ DIdle /\ MInit

NextM == initReplanner


(***************************************************************************)
(* Specifications.                                                         *)
(***************************************************************************)
SpecCC == InitCC /\ [][NextCC]_vars

\* the same threads on a bank that starts one path short of NOtherPaths, so
\* that it can grow more than once
InitBank == CCInitWith(NOtherPaths - 1) /\ DIdle /\ MIdle

SpecBank == InitBank /\ [][NextCC]_vars

SpecLocks == InitCC /\ [][NextLocks]_vars

SpecDRRT == InitDRRT /\ [][NextDRRT]_vars

SpecNB == InitNB /\ [][NextNB]_vars

SpecLive == InitCC /\ [][NextLocks]_vars /\ CCFairness

SpecStart == InitDRRT /\ [][NextStart]_vars

SpecObs == InitObs /\ [][NextObs]_vars

SpecPre == InitPre /\ [][NextPre]_vars

SpecInitReplanner == InitM /\ [][NextM]_vars

SpecScene == InitCC /\ [][NextScene]_vars

SpecLoop == InitLoop /\ [][NextLoop]_vars

(***************************************************************************)
(* Properties of collisionCheckThread.                                     *)
(***************************************************************************)
CCHeldOrdered ==
  \A i, j \in 1..Len(cc_held) : i < j => Rank(cc_held[i]) < Rank(cc_held[j])

CCRequestsUpwards ==
  cc_pc \in LockSteps =>
    \A i \in 1..Len(cc_held) : Rank(cc_held[i]) < Rank(MutexOfStep(cc_pc))

CCReleasesLast ==
  Len(cc_held') < Len(cc_held) => cc_held' = SubSeq(cc_held, 1, Len(cc_held) - 1)

WaitCycle ==
  /\ cc_pc \in LockSteps
  /\ mtx[MutexOfStep(cc_pc)] = "rp"
  /\ rp_want # NoMutex
  /\ mtx[rp_want] = "cc"

\* C1: whenever collisionCheckThread holds more than one mutex it took them
\* in the order scene_mtx, trj_mtx, paths_mtx, other_paths_mtx; it never
\* requests a mutex that precedes one it holds; it releases the mutex it
\* took last; and it is never in a cycle of lock waits with a thread that
\* follows the same order.
C1_LockOrder ==
  /\ [](CCHeldOrdered /\ CCRequestsUpwards /\ ~WaitCycle)
  /\ [][CCReleasesLast]_vars

\* the thread holds trj_mtx, paths_mtx and other_paths_mtx while the other
\* thread is blocked on one of them
C1_Witness ==
  /\ cc_held = <<"trj_mtx", "paths_mtx", "other_paths_mtx">>
  /\ rp_want = "paths_mtx"
  /\ rp_held = <<"scene_mtx">>

\* what the thread hands out in a cycle: the scene of every checker and SSM
\* estimator, and the shared scene messages and obstacle positions
CCScenePublished == <<checker_cc_scene, ssm_current_path, checkers_scene,
                      metrics_positions, planning_scene_msg_,
                      planning_scene_diff_msg_, obstalces_positions_>>

\* C2: a failed scene service call sets stop_ and ends the loop in that
\* cycle, straight from the call, with no mutex taken and nothing published:
\* no checker or SSM estimator gets a scene, no cost is written back, and the
\* shared scene messages and obstacle positions keep their values from then
\* on.
C2_ServiceFailureStops ==
  /\ [](cc_exit = "srv" => cc_pc = "done" /\ stop_ /\ cc_held = <<>>)
  /\ [][cc_exit' = "srv" => UNCHANGED CCScenePublished /\ cc_held = <<>>]_vars
  /\ [][(cc_exit # "srv" /\ cc_exit' = "srv") =>
          /\ cc_pc = "call"
          /\ UNCHANGED <<cost_current_shared, cost_other_shared>>]_vars

\* the call failed while the world differed from the published one
C2_Witness ==
  /\ cc_exit = "srv"
  /\ cc_pc = "done"
  /\ updateObstaclesPositions(world) # obstalces_positions_
  /\ world # planning_scene_msg_

\* C3: on every path through a cycle, the `continue` one included, every
\* check task launched in the cycle is over before the costs are written
\* back and the shared scene committed, and before the checkers and SSM
\* estimators are given the next cycle's scene.
C3_TasksJoinedBeforeCommit ==
  cc_pc \in {"upc_lock_paths", "upc_lock_other", "update_costs",
             "upc_unlock_other", "upc_unlock_paths", "commit", "set_scene"}
    => \A i \in 1..Len(tasks) : tasks[i] # "running"

\* the cycle after one that took `continue` is about to hand a new scene to
\* the checkers
C3_Witness ==
  /\ cc_pc = "set_scene"
  /\ current_configuration_copy = "off_path"
  /\ ps_srv # checker_cc_scene

(***************************************************************************)
(* Properties of DynamicRRTStar::replan.                                   *)
(***************************************************************************)
Returned == d_pc = "done"

\* replan() went into the branch that repairs the path
TookObstructedBranch == node_replan # NullNode

\* on entry the path was free from the current configuration to the goal
EntryCostFinite ==
  /\ ~(entry.path[conf_conn][3] = Infinity /\ conf_child_blocked)
  /\ \A j \in (conf_conn + 1)..Len(entry.path) : entry.path[j][3] # Infinity

TreeAsOnEntry ==
  /\ tree_nodes = entry.nodes
  /\ TreeEdges(conn) = entry.edges

PathAsOnEntry == PathEdges(conn, path) = entry.path

\* C4: when the cost from the current configuration to the goal is finite,
\* replan() returns false at once, with success false and replanned_path
\* the current path, and the tree and the path are as on entry: no node
\* added, the root unchanged, no edge added, removed or re-costed.
C4_NoObstructionNoChange ==
  (EntryCostFinite /\ d_pc # "replan") =>
    /\ Returned
    /\ ret = FALSE
    /\ ~success_
    /\ replanned_path_ = "current_path"
    /\ ~TookObstructedBranch
    /\ tree_root = entry.root
    /\ TreeAsOnEntry
    /\ PathAsOnEntry
    /\ Len(conn) = Cardinality(entry.edges)

\* a return from a path whose obstruction lies behind the robot, after an
\* earlier call that left another replanned path
C4_Witness ==
  /\ Returned
  /\ EntryCostFinite
  /\ entry.path[conf_conn][3] = Infinity
  /\ Len(entry.path) = 2
  /\ variant = 2

\* C5: whenever replan() takes the obstructed branch and ends with success
\* false, the root of the tree is the root of entry, and node_replan is out
\* of the tree unless something besides the path hangs on it.
C5_RootRestoredOnFailure ==
  (Returned /\ TookObstructedBranch /\ ~success_) =>
    /\ tree_root = entry.root
    /\ node_replan \in tree_nodes =>
         Cardinality(ChildConns(conn, node_replan)) > 1

\* What the rewireBehindObs variant does when it runs out of time without
\* reattaching replan_goal: replan() ends with success false
\* and the root of entry put back; every node of entry is still in the
\* tree; the tree has the nodes and edges of entry exactly when neither the
\* local rewiring nor the sampling loop changed it - what they added or
\* rewired stays.
C6_FailureKeepsGrowth ==
  (variant = 1 /\ Returned /\ TookObstructedBranch /\ ~success_) =>
    /\ time >= Deadline(variant)
    /\ tree_root = entry.root
    /\ entry.nodes \subseteq tree_nodes
    /\ TreeAsOnEntry <=> ~touched

\* a failed call that sampled a node, and that node is still in the tree
C6_Witness ==
  /\ variant = 1
  /\ Returned
  /\ TookObstructedBranch
  /\ ~success_
  /\ n_sampled = 1
  /\ tree_root = entry.root
  /\ ~TreeAsOnEntry

\* C6: when the replanner passes its deadline without reattaching
\* replan_goal, replan() ends with success false and the tree has exactly
\* the nodes, edges, orientations and costs of entry.
C6_FailureDiscardsAll ==
  (variant = 1 /\ Returned /\ TookObstructedBranch /\ ~success_) => TreeAsOnEntry

\* C7: if replan() of the rewireBehindObs variant returns false, the
\* current path has the nodes and edge costs it had on entry: the node
\* inserted at the current configuration is gone and the split edge is back.
C7_FalseReturnLeavesPath ==
  (variant = 1 /\ Returned /\ ret = FALSE) =>
    /\ PathAsOnEntry
    /\ node_replan \notin tree_nodes

\* a false return from the obstructed branch, where the edge was split and
\* merged again
C7_Witness ==
  /\ variant = 1
  /\ Returned
  /\ ret = FALSE
  /\ TookObstructedBranch
  /\ Len(conn) > Cardinality(entry.edges)

PathHoldsDetachedConn == \E i \in 1..Len(path) : ~conn[path[i]].attached

NBReturned == d_pc = "nb_done"

ObstructedEdges == {i \in 1..Len(path) : conn[path[i]].cost = Infinity}

\* C9 (as the code has it): on a path with an obstructed edge nodeBehindObs
\* returns true and picks the child of the edge that follows the last
\* obstructed edge; it picks the child of the last obstructed edge only
\* when that edge is the last of the path.
C9_NodeAfterNextEdge ==
  (NBReturned /\ ObstructedEdges # {}) =>
    LET last == SetMax(ObstructedEdges)
    IN /\ nb_found
       /\ last < Len(path) => replan_goal = conn[path[last + 1]].child
       /\ last = Len(path) => replan_goal = conn[path[last]].child

\* the last obstructed edge is the first of three
C9_Witness ==
  /\ NBReturned
  /\ Len(path) = 3
  /\ ObstructedEdges = {1}
  /\ replan_goal = conn[path[2]].child

\* C9 as stated: the child of the last obstructed edge, wherever it is.
C9_ChildOfLastObstructed ==
  (NBReturned /\ ObstructedEdges # {}) =>
    replan_goal = conn[path[SetMax(ObstructedEdges)]].child

\* C10: when only the last edge of the path is obstructed nodeBehindObs
\* returns true with replan_goal the goal node of the path; when no edge is
\* obstructed it returns false and replan_goal stays unset.
C10_LastEdgeAndNone ==
  NBReturned =>
    /\ ObstructedEdges = {Len(path)} =>
         (nb_found /\ replan_goal = goal_node_
            /\ replan_goal = conn[path[Len(path)]].child)
    /\ ObstructedEdges = {} => (~nb_found /\ replan_goal = NullNode)

\* a path of several edges of which only the last is obstructed
C10_Witness ==
  /\ NBReturned
  /\ Len(path) = 3
  /\ ObstructedEdges = {3}
  /\ nb_found
  /\ replan_goal = 4

(***************************************************************************)
(* Properties of startReplannedPathFromNewCurrentConf.                     *)
(***************************************************************************)
StartStep == d_pc = "done" /\ d_pc' = "started"

\* the connections of the Path object replanned_path_ points to
ReplannedPathConns ==
  CASE replanned_path_ = "current_path" -> path
    [] replanned_path_ = "new_path" -> replanned_conns
    [] OTHER -> <<>>

\* the connections of pth the step splits: in the tree before, out after,
\* both of their end nodes joined to the new root
SplitBy(pth) ==
  {k \in 1..Len(pth) :
     /\ conn[pth[k]].attached
     /\ ~conn'[pth[k]].attached
     /\ \A e \in {conn[pth[k]].parent, conn[pth[k]].child} :
          \E j \in ChildConns(conn', tree_root') : conn'[j].child = e}

\* the new node is the root and the replanned path runs from it to the goal
StartsAtNewRoot ==
  /\ tree_root' \notin tree_nodes
  /\ tree_nodes' = tree_nodes \cup {tree_root'}
  /\ ParentConns(conn', tree_root') = {}
  /\ replanned_conns' = getConnectionToNode(conn', goal_node_)
  /\ replanned_conns' # <<>>
  /\ conn'[replanned_conns'[1]].parent = tree_root'
  /\ conn'[replanned_conns'[Len(replanned_conns')]].child = goal_node_
  /\ \A j \in 1..Len(replanned_conns') : conn'[replanned_conns'[j]].attached
  /\ \A j \in 1..(Len(replanned_conns') - 1) :
       conn'[replanned_conns'[j]].child = conn'[replanned_conns'[j + 1]].parent

\* C11: when startReplannedPathFromNewCurrentConf(conf) completes, a node at
\* conf has been inserted by splitting the connection of the replanner's
\* current path that holds conf, that node is the root of the tree, and the
\* replanned path has exactly the connections of the tree from that node to
\* the goal.
C11_StartSplitsCurrentPath ==
  [][StartStep => (SplitBy(path) # {} /\ StartsAtNewRoot)]_vars

\* after a repair that delivered a new path, the restart put the root at the
\* robot, before the node the repair started from
C11_Witness ==
  /\ d_pc = "started"
  /\ variant = 1
  /\ success_
  /\ replanned_path_ = "new_path"
  /\ tree_root \notin entry.nodes
  /\ tree_root # node_replan
  /\ Len(replanned_conns) >= 3

\* C11 as stated: the connection that is split is one of the replanned path.
C11_StartSplitsReplannedPath ==
  [][StartStep => (SplitBy(ReplannedPathConns) # {} /\ StartsAtNewRoot)]_vars

(***************************************************************************)
(* Properties of the scene handed out in a cycle.                          *)
(***************************************************************************)
\* the positions of the objects of w whose id is not listed as unaware
AwarePositions(w) ==
  LET aware == SelectSeq(w, LAMBDA obj : obj.id \notin SeqSet(unaware_obstacles_))
  IN [i \in 1..Len(aware) |-> aware[i].pos]

\* C12: in a collision-check cycle every SSM estimator gets exactly the
\* positions of the world's objects whose id is not in unaware_obstacles, in
\* world order, and every collision checker gets the scene with all objects.
C12_SSMGetsAwareOnly ==
  cc_pc = "unlock_scene1" =>
    /\ ssm_current_path = AwarePositions(ps_srv)
    /\ \A i \in 1..Len(metrics_positions) :
         metrics_positions[i] = AwarePositions(ps_srv)
    /\ checker_cc_scene = ps_srv
    /\ \A i \in 1..Len(checkers_scene) : checkers_scene[i] = ps_srv

\* a world with an unaware object between two aware ones
C12_Witness ==
  /\ cc_pc = "unlock_scene1"
  /\ Len(ps_srv) = 3
  /\ ps_srv[1] = [id |-> "human", pos |-> 1]
  /\ ps_srv[2].id = "cart"
  /\ ps_srv[3] = [id |-> "human", pos |-> 2]
  /\ metrics_positions[NOtherPaths] = <<1, 2>>
  /\ Len(checkers_scene[NOtherPaths]) = 3

(***************************************************************************)
(* Stopping the collision-check thread.                                    *)
(***************************************************************************)
\* the thread writes path costs back or commits the scene
CCWritesBack ==
  \/ cc_pc = "update_costs" /\ cc_pc' = "upc_unlock_other"
  \/ cc_pc = "commit" /\ cc_pc' = "unlock_scene2"

\* C13: the thread looks at stop_ at the loop head and after the service
\* call, the wait for the tasks and the sleep, so once another thread has set
\* stop_ it writes no path cost back and commits no scene or obstacle
\* positions.
C13_NoWriteBackAfterStop == [][stop_ => ~CCWritesBack]_vars

\* the ends of the loop the code provides for
CCNormalExits == {"stop", "srv", "goal"}

\* C14: once stop_ is set the thread leaves its loop and ends, when the
\* service call and the check tasks return and held mutexes are released; it
\* starts no cycle after the one in progress and holds no mutex at the end.
C14_StopLeadsToExit ==
  /\ stop_ ~> (cc_pc = "done")
  /\ [][stop_ => ~(cc_pc = "head" /\ cc_pc' = "call")]_vars
  /\ [](cc_pc = "done" /\ cc_exit \in CCNormalExits => cc_held = <<>>)

\* the loop head saw stop_ while the other thread still held a mutex
C14_Witness ==
  /\ cc_pc = "done"
  /\ cc_exit = "stop"
  /\ rp_held # <<>>

\* C15: a cycle that reads, under trj_mtx, a configuration within goal_tol of
\* the goal sets stop_ and leaves the loop with every mutex released, no
\* task launched and no cost or scene published; a configuration farther
\* away sets no stop_ at the goal test.
C15_GoalStops ==
  /\ [](cc_exit = "goal" =>
          /\ cc_pc = "done"
          /\ stop_
          /\ cc_held = <<>>
          /\ tasks = <<>>
          /\ current_configuration_copy = "at_goal")
  /\ [][cc_exit # "goal" /\ cc_exit' = "goal" =>
          /\ cc_pc = "goal_test"
          /\ UNCHANGED <<cost_current_shared, cost_other_shared,
                         planning_scene_msg_, planning_scene_diff_msg_,
                         obstalces_positions_, tasks>>]_vars
  /\ [][cc_pc = "goal_test" /\ cc_pc' # "goal_test" =>
          IF current_configuration_copy = "at_goal"
            THEN cc_pc' = "done" /\ cc_exit' = "goal" /\ stop_'
            ELSE cc_pc' = "launch" /\ UNCHANGED stop_]_vars
  /\ [][current_configuration_copy' # current_configuration_copy =>
          /\ current_configuration_copy' = current_configuration_
          /\ "trj_mtx" \in SeqSet(cc_held)]_vars

\* the thread left at the goal test with a scene it got but never published
C15_Witness ==
  /\ cc_exit = "goal"
  /\ cc_pc = "done"
  /\ checker_cc_scene # <<>>
  /\ planning_scene_msg_ = <<>>

C17_NoIterationAfterDeadline ==
  d_pc = "iterate" => (time = clock /\ clock < Deadline(variant))


\* C18: once initReplanner() has returned normally, full_net_search is false
\* in the manager and in the replanner it installed, whatever the manager's
\* flag was before the call
C18_FullNetSearchForcedOff ==
  [][(m_pc = "call" /\ m_pc' = "returned")
       => /\ full_net_search_' = FALSE
          /\ replanner_' # {}
          /\ \A r \in replanner_' : r.full_net_search = FALSE]_vars

\* the call returned, the flag was set before it, and it is off in both places
C18_Witness ==
  /\ m_pc = "returned"
  /\ m_warned
  /\ ~full_net_search_
  /\ replanner_ # {}
  /\ \A r \in replanner_ : ~r.full_net_search


\* the three shared scene data
SharedScene ==
  <<planning_scene_msg_, planning_scene_diff_msg_, obstalces_positions_>>

SyncCurrentStep == cc_pc = "sync_current" /\ cc_pc' = "lock_other"

SyncOthersStep == cc_pc = "sync_others" /\ cc_pc' = "unlock_other"

HeldForSync == mtx["trj_mtx"] = "cc" /\ mtx["paths_mtx"] = "cc"

\* C20: a cycle that runs the sync step with current_path_sync_needed_ (or
\* other_paths_sync_needed_[i]) set replaces its copy of that path by a clone
\* of the shared path, gives the copy the checker and metrics it had before
\* and clears the flag, holding trj_mtx and paths_mtx (and other_paths_mtx
\* for an alternate); a copy whose flag is clear is left as it is, and the
\* copy of the current path is replaced nowhere else
C20_RecloneOnFlagOnly ==
  [][/\ SyncCurrentStep =>
          IF current_path_sync_needed_
            THEN /\ current_path_copy' = current_path_shared_
                 /\ cost_current_copy' = cost_current_shared
                 /\ attached'.current = "checker_cc_"
                 /\ attached'.current = attached.current
                 /\ ~current_path_sync_needed_'
                 /\ HeldForSync
            ELSE UNCHANGED <<current_path_copy, cost_current_copy, attached>>
     /\ SyncOthersStep =>
          \A i \in 1..Len(cost_other_copy) :
            IF other_paths_sync_needed_[i]
              THEN /\ cost_other_copy'[i] = cost_other_shared[i]
                   /\ attached'.others[i] = i
                   /\ ~other_paths_sync_needed_'[i]
                   /\ HeldForSync
                   /\ mtx["other_paths_mtx"] = "cc"
              ELSE /\ cost_other_copy'[i] = cost_other_copy[i]
                   /\ attached'.others[i] = attached.others[i]
     /\ current_path_copy' # current_path_copy =>
          (SyncCurrentStep /\ current_path_sync_needed_)]_vars

\* the copy of a replaced current path has just been recloned and its flag
\* cleared under the two mutexes, and an alternate path waits for its turn
C20_Witness ==
  /\ cc_pc = "lock_other"
  /\ current_path_shared_ > 0
  /\ current_path_copy = current_path_shared_
  /\ ~current_path_sync_needed_
  /\ HeldForSync
  /\ \E i \in 1..Len(other_paths_sync_needed_) : other_paths_sync_needed_[i]


\* the write-back of a complete cycle
WriteBackStep == cc_pc = "update_costs" /\ cc_pc' = "upc_unlock_other"

C22_OneParentEdge ==
  d_pc \in {"loop_test", "iterate"}
    => /\ Cardinality(ParentConns(conn, replan_goal)) = 1
       /\ \A n \in tree_nodes : Cardinality(ParentConns(conn, n)) <= 1

\* replan_goal has been reattached: its one parent is a node the loop added
C22_Witness ==
  /\ d_pc = "loop_test"
  /\ success_
  /\ Cardinality(ParentConns(conn, replan_goal)) = 1
  /\ \E k \in ParentConns(conn, replan_goal) :
       conn[k].parent \notin entry.nodes \cup {node_replan}


\* one pass through the body of the sampling loop
IterStep == d_pc = "iterate" /\ d_pc' = "loop_test"

SuccessfulReplan == Returned /\ TookObstructedBranch /\ success_

\* pth is a chain of connections of the tree c from node a to node b
WellFormedPath(c, pth, a, b) ==
  /\ pth # <<>>
  /\ c[pth[1]].parent = a
  /\ c[pth[Len(pth)]].child = b
  /\ \A j \in 1..(Len(pth) - 1) : c[pth[j]].child = c[pth[j + 1]].parent
  /\ \A j \in 1..Len(pth) : c[pth[j]].attached
  /\ \A j \in 1..Len(pth) : c[pth[j]].cost < Infinity

\* C24: after a successful DRRT* replan() returns, the root of the tree is
\* the root it had on entry, and the replanned path is a well-formed path of
\* that tree: it starts at node_replan, ends at the goal, consecutive
\* connections share their end nodes, every connection is in the tree as the
\* path holds it, and every cost is finite.
C24_SuccessRootAndPath ==
  SuccessfulReplan =>
    /\ tree_root = entry.root
    /\ WellFormedPath(conn, ReplannedPathConns, node_replan, goal_node_)



(***************************************************************************)
(* The time budget of the sampling loop.                                   *)
(***************************************************************************)
\* 0.98 * max_time_
SamplingBudget == (98 * MaxTime) \div 100

\* the loop condition is evaluated
LoopTestStep == d_pc = "loop_test" /\ d_pc' \in {"iterate", "after_loop"}

\* C25: the sampling loop of the repair goes on until 0.98 times max_time_
\* has elapsed since the start of the call: a pass starts if and only if the
\* elapsed time read for it is below 0.98 * max_time_.
C25_SamplesUntilBudget ==
  [][LoopTestStep => (d_pc' = "iterate" <=> time < SamplingBudget)]_vars


(***************************************************************************)
(* The ways back to the head of the collision-check loop.                  *)
(***************************************************************************)
\* the thread comes back to while(!stop_ && ros::ok())
BackToLoopHead == cc_pc # "head" /\ cc_pc' = "head"

\* C26: every cycle of the collision-check loop that does not stop the
\* thread ends with the write-back of the costs, the commit of the scene and
\* the rate sleep: the thread comes back to the loop head from lp.sleep()
\* only, which follows updatePathsCost and the commit.
C26_EveryCycleSleeps ==
  [][BackToLoopHead => cc_pc = "sleep"]_vars


(***************************************************************************)
(* The instances the concurrent checks of one cycle work with.             *)
(***************************************************************************)
\* the tasks of the cycle that are running
RunningTasks == {i \in 1..Len(tasks) : tasks[i] = "running"}

\* C27: no two collision checks that run concurrently in a cycle share a
\* checker or a metric: the copy of alternate path i works with checkers[i]
\* and metrics[i], clones of their own for every i and none of them the
\* checker_cc_ and the metric of the current path, also after an alternate
\* path was added or recloned.
C27_NoSharedInstance ==
  RunningTasks # {} =>
    /\ attached.current = "checker_cc_"
    /\ Len(attached.others) = Len(tasks)
    /\ \A i \in 1..Len(tasks) :
         /\ attached.others[i] \in 1..Len(checkers_scene)
         /\ attached.others[i] \in 1..Len(metrics_positions)
         /\ \A j \in 1..Len(tasks) :
              i # j => attached.others[i] # attached.others[j]

\* two tasks run at once on a bank that grew, after a reclone
C27_Witness ==
  /\ Cardinality(RunningTasks) >= 2
  /\ Len(tasks) > NOtherPaths
  /\ ~published.clean


(***************************************************************************)
(* The recorded cost to the goal over one call of the repair.              *)
(***************************************************************************)
\* C28: within one call of the repair the recorded cost to the goal starts
\* at infinity and strictly decreases with every reattachment of
\* replan_goal: the first admissible connection is always accepted, and
\* every later reattachment has a strictly smaller recorded cost than the
\* one before; a pass that does not reattach leaves the record alone.
C28_RecordedCostDecreases ==
  [][/\ (d_pc = "phase_a" /\ d_pc' # "phase_a") => cost2goal' = Infinity
     /\ IterStep =>
          /\ (cost2goal = Infinity /\ last_try'.within /\ last_try'.free)
               => last_try'.reattached
          /\ last_try'.reattached => cost2goal' < cost2goal
          /\ ~last_try'.reattached => cost2goal' = cost2goal]_vars


(***************************************************************************)
(* The growth of the bank of alternate paths.                              *)
(***************************************************************************)
\* the thread is about to run the growth branch and the reclone loop
AtSyncOthers == cc_pc = "sync_others"

\* C29: between two consecutive sync steps of the collision-check thread the
\* shared bank grows by at most one path, whatever the replanner thread does
\* in between: when the growth branch is entered the bank is one longer than
\* the thread's copies, and the assertion of line 182 never fails.
C29_BankGrowsByOne ==
  /\ AtSyncOthers => Len(cost_other_shared) <= other_path_size + 1
  /\ cc_exit # "assert"


\* the growth branch and the reclone loop are over, other_paths_mtx is held
AfterSyncOthers == cc_pc = "unlock_other"

\* C30: after the growth step of every cycle the thread's vectors
\* other_paths_copy, checkers and metrics are as long as other_paths_shared_
\* and other_paths_sync_needed_, so every index of the reclone loop and of
\* the task fan-out is in range (no at(i) throws) and copy i is the copy of
\* shared path i.
C30_LocalVectorsMatchBank ==
  /\ AfterSyncOthers =>
       /\ Len(cost_other_copy) = Len(cost_other_shared)
       /\ Len(checkers_scene) = Len(cost_other_shared)
       /\ Len(metrics_positions) = Len(cost_other_shared)
       /\ Len(other_paths_sync_needed_) = Len(cost_other_shared)
       /\ other_path_size = Len(cost_other_shared)
  /\ cc_exit # "exception"


(***************************************************************************)
(* replan() of the second listing after connectBehindObs.                   *)
(***************************************************************************)
\* replan() of the second listing took the obstructed branch and is over,
\* by a return or by the end of the process
ConnectReplanOver ==
  variant = 2 /\ TookObstructedBranch /\ d_pc \in {"done", "crashed"}

\* C31: in the replan() built on connectBehindObs success implies that the
\* tree was modified, and whenever connectBehindObs reports the tree as not
\* modified replan() returns with the entry root restored and node_replan
\* out of the current path, whatever replanned_path_ was left by an earlier
\* call (unset, or a path of another tree).
C31_NotModifiedRollsBack ==
  ConnectReplanOver =>
    /\ success_ => tree_modified
    /\ ~tree_modified =>
         /\ d_pc = "done"
         /\ tree_root = entry.root
         /\ node_replan \notin SeqSet(getNodes(conn, path))

=============================================================================
